---- MODULE Spec2Model ----
(***************************************************************************)
(* DocAgentLine: the pipeline engine (pipeline/engine.py), the stage       *)
(* registry (pipeline/registry.py), the error taxonomy (utils/errors.py)   *)
(* and the store effects of the nine stages (pipeline/stages/*.py).        *)
(*                                                                         *)
(* The store is the tables documents, raw_content, chunks, pipeline_runs   *)
(* and metrics.  Every `await` on the store is a step of its own, so that  *)
(* invocations of execute_pipeline interleave (and crash) exactly where    *)
(* the asyncio code can be suspended.  A transaction that raises before    *)
(* its commit is rolled back by engine.begin() (db/connection.py:71) and   *)
(* leaves the store unchanged.                                             *)
(***************************************************************************)
EXTENDS Integers, Sequences, FiniteSets, TLC

(* ------------------------------ bounds -------------------------------- *)

\* Stage attempts that raise, store writes of the engine that raise and
\* crashes of the process, over one behaviour with several calls.
MaxFaults == 2

\* llm_max_retries ranges over 0..MaxRetriesBound (settings.py:36, ge=0).
MaxRetriesBound == 2

\* random.random() returns k / 2^RandomBits (53 in CPython); the float sum
\* 0.5 + r is rounded to a significand of RandomBits bits.
RandomBits == 3

\* The callers' invocations of execute_pipeline (their correlation ids).
Invocations == {1, 2}

\* Document ids present in the store.
DocIds == {1}

\* The submissions made (HTTP requests and runs of the CLI command).
Requests == {1, 2, 3}

(* --------------------------- registry.py ------------------------------ *)

\* StageRegistry._order
Stages ==
    << "ingest", "text_extraction", "layout_normalization", "chunking",
       "embedding", "structured_extraction", "validation", "persistence",
       "metrics_and_audit" >>

\* get_ordered_stages returning the names in dictionary (sorted) order
get_ordered_stages_sorted ==
    << "chunking", "embedding", "ingest", "layout_normalization",
       "metrics_and_audit", "persistence", "structured_extraction",
       "text_extraction", "validation" >>

\* StageRegistry.get_ordered_stages
get_ordered_stages == Stages

StageNames == { Stages[k] : k \in 1..Len(Stages) }

\* position of a stage in the order
StageIndex(s) == CHOOSE k \in 1..Len(Stages) : Stages[k] = s

(* ---------------------------- errors.py ------------------------------- *)

\* The exception classes a stage or a store write can raise: the taxonomy of
\* utils/errors.py, and outside it "Exception" (a KeyError, the MockStage
\* failure of the tests) and "SQLAlchemyError" (what the store raises).
ErrorClasses ==
    { "TransientExternalError", "ModelOutputError", "SchemaValidationError",
      "PipelineStateError", "StorageError", "ConfigurationError",
      "SchemaRegistryError", "IngestionError", "ExtractionError",
      "ChunkingError", "EmbeddingError", "Exception", "SQLAlchemyError" }

\* The classes an opaque stage attempt is made to raise here.
InjectedErrors == { "TransientExternalError", "ModelOutputError", "Exception" }

NoError == "none"

\* is_retryable
is_retryable(e) == e = "TransientExternalError"

\* classify_error
classify_error(e) ==
    CASE e = "TransientExternalError" -> "transient_external"
      [] e = "ModelOutputError"       -> "model_output"
      [] e = "SchemaValidationError"  -> "schema_validation"
      [] e = "PipelineStateError"     -> "pipeline_state"
      [] e = "StorageError"           -> "storage"
      [] e = "ConfigurationError"     -> "configuration"
      [] e = "SchemaRegistryError"    -> "schema_registry"
      [] e = "IngestionError"         -> "ingestion"
      [] e = "ExtractionError"        -> "extraction"
      [] e = "ChunkingError"          -> "chunking"
      [] e = "EmbeddingError"         -> "embedding"
      [] OTHER                        -> "unknown"

\* len(str(e)) of the errors raised here: the message, and for a
\* ModelOutputError of a provider the details with the response body
\* appended (errors.py:12-15, openai_provider.py:86-89)
MessageChars(e) == IF e = "ModelOutputError" THEN 1500 ELSE 40

(* ------------------------------ state --------------------------------- *)

VARIABLES
    settings,       \* the Settings the engine reads in __init__
    callers,        \* the correlation ids of the calls that will be made
    documents,      \* table documents: id -> row
    raw_content,    \* table raw_content: document_id -> content, or NoRow
    chunks,         \* table chunks: rows in insertion order
    pipeline_runs,  \* table pipeline_runs: rows, id = position
    metrics,        \* table metrics: rows in insertion order
    embeddings,     \* table embeddings: rows in insertion order
    extractions,    \* table extractions: rows in insertion order
    prompts,        \* table prompts: rows in insertion order
    validation_errors,  \* table validation_errors: rows in insertion order
    now,            \* datetime.utcnow(): advances with every timestamped write
    faults,         \* raises and crashes so far
    pc,             \* per invocation: where execute_pipeline stands
    document_id,    \* per invocation: the argument
    stage_idx,      \* per invocation: position of the for-loop over stages
    attempt,        \* per invocation: the retry loop's attempt
    run_id,         \* per invocation: the run record of the current attempt
    error,          \* per invocation: the exception being handled / raised
    results,        \* per invocation: the results dict
    backoff,        \* per invocation: the sleep in progress (None outside)
    slept,          \* per invocation: sleeps of the current retry loop
    step,           \* per invocation: commits made by the execute in progress
    data,           \* SchemaValidator: the object handed to validate
    schema,         \* SchemaValidator: the schema handed to validate
    validation_results,  \* SchemaValidator: the ValidationResults returned
    request,        \* per submission: channel, content and schema_version
    submit_pc,      \* per submission: where submit_document stands
    response,       \* per submission: the document_id returned
    background_tasks, \* submissions: the documents handed to add_task
    max_concurrent, \* chunk tasks: settings.pipeline_max_concurrent_chunks
    stage_call,     \* chunk tasks: where the execute of the stage stands
    task,           \* chunk tasks: per chunk id, where its task stands
    semaphore,      \* chunk tasks: free slots of the asyncio.Semaphore
    pending,        \* chunk tasks: rows written on conn and not committed
    gather_error,   \* chunk tasks: a task raised, gather not yet
    llm_provider,   \* provider call: settings.llm_provider
    exchange,       \* provider call: what client.post gave, if awaited
    outcome,        \* provider call: what generate_structured gave
    chunking,       \* chunker: chunk_size, chunk_overlap, min_chunk_size
    chunker,        \* chunker: where execute and _create_chunks stand
    prices,         \* cost: cost_per_1k_input_tokens, ..._output_tokens
    awaiting,       \* deadline: the run whose stage.execute is awaited, how long
    registry        \* SchemaRegistry: its _cache, the schema files, its calls

storeVars == << documents, raw_content, chunks, pipeline_runs, metrics >>
localVars == << pc, document_id, stage_idx, attempt, run_id, error, results,
                backoff, slept >>
\* the tables only the stages write
outputVars == << embeddings, extractions, prompts, validation_errors >>
engineVars == << settings, callers, documents, raw_content, chunks,
                 pipeline_runs, metrics, now, faults, pc, document_id,
                 stage_idx, attempt, run_id, error, results, backoff, slept,
                 outputVars, step >>
validatorVars == << data, schema, validation_results >>
submitVars == << request, submit_pc, response, background_tasks >>
\* what the engine's steps leave alone
taskVars == << max_concurrent, stage_call, task, semaphore, pending,
              gather_error >>
providerVars == << llm_provider, exchange, outcome >>
chunkerVars == << chunking, chunker >>
serviceVars == << providerVars, chunkerVars, prices, awaiting, registry >>
outsideEngine == << validatorVars, submitVars, taskVars, serviceVars >>
vars == << engineVars, outsideEngine >>

NoRow == "no_row"
NoSleep == [on |-> FALSE]

\* Raw contents: the empty file and a text of one paragraph.
Contents == { "", "one paragraph" }

\* ContentHasher.hash_content: SHA-256, taken as injective
hash_content(content) == << "sha256", content >>

\* the results dict before any stage is recorded
EmptyResults == [s \in StageNames |-> "none"]

\* Settings fields the engine reads (engine.py:32-35), over small domains
\* inside the ranges settings.py allows (base >= 1.0, max >= 1.0).
BackoffBases == {1, 2}
BackoffMaxes == {1, 60}

SettingsDomain ==
    [ llm_max_retries : 0..MaxRetriesBound,
      pipeline_retry_backoff_base : BackoffBases,
      pipeline_retry_backoff_max : BackoffMaxes,
      pipeline_retry_jitter : BOOLEAN ]

(* ------------------ services/validation/schema_validator.py ----------- *)

\* JSON objects over two properties; a value is written as its JSON text.
Props == {"x", "y"}
JsonValues == {"'a'", "1"}
Absent == "absent"
NoDefault == "no_default"
JsonTypes == {"string", "integer"}

\* is_type of the Draft 7 type checker on JsonValues
TypeOf(v) == IF v = "1" THEN "integer" ELSE "string"

\* the objects json.loads can return
JsonObjects == [Props -> JsonValues \cup {Absent}]

\* Schemas {"type": "object", "required": [...], "properties": {...}} with
\* the two keywords in either order of the schema's dict, every property
\* having a type and possibly a default.
KeywordOrders == { << "required", "properties" >>,
                   << "properties", "required" >> }
Schemas ==
    [ keywords : KeywordOrders,
      required : SUBSET Props,
      properties : [Props -> [type : JsonTypes,
                              default : JsonValues \cup {NoDefault}]] ]

\* jsonschema's error of the required keyword: path empty
RequiredError(p) ==
    [ json_path |-> << "$." >>, message |-> << p, "is a required property" >> ]

\* the type error with the path left out of json_path
TypeErrorAtRoot(p, v, t) ==
    [ json_path |-> << "$." >>,
      message |-> << v, "is not of type", t >> ]

\* jsonschema's error of the type keyword below properties: path (p)
TypeError(p, v, t) ==
    [ json_path |-> << "$.", p >>,
      message |-> << v, "is not of type", t >> ]

\* Position of an error under sorted(..., key=str): str(error) starts with
\* the message, so "'a' is not of type ..." sorts before "'x' is a
\* required property", that before "'y' is ...", and "1 is not of type ..."
\* after them ("'" < "1"); equal messages are told apart by the schema
\* path that follows ('x' < 'y').
ErrorRank(e) ==
    LET byProp == IF e.json_path = << "$.", "y" >> THEN 1 ELSE 0
    IN  IF e.json_path = << "$." >>
        THEN IF e.message[1] = "x" THEN 3 ELSE 4
        ELSE IF e.message[1] = "'a'" THEN 1 + byProp ELSE 5 + byProp

\* set_defaults: instance.setdefault(property, subschema["default"]) for
\* every property whose subschema has a default
set_defaults(instance, sch) ==
    [p \in Props |->
        IF instance[p] = Absent /\ sch.properties[p].default # NoDefault
        THEN sch.properties[p].default
        ELSE instance[p]]

\* errors the keyword yields on the instance as it is when the keyword is
\* reached
KeywordErrors(keyword, instance, sch) ==
    IF keyword = "required"
    THEN { RequiredError(p) : p \in { q \in sch.required :
                                        instance[q] = Absent } }
    ELSE { TypeError(p, instance[p], sch.properties[p].type) :
              p \in { q \in Props :
                        /\ instance[q] # Absent
                        /\ TypeOf(instance[q]) # sch.properties[q].type } }

\* the instance after the keyword ran
KeywordInstance(keyword, instance, sch) ==
    IF keyword = "properties" THEN set_defaults(instance, sch) ELSE instance

\* validator.iter_errors(data): the keywords in the order of the schema's
\* dict, each on the instance the earlier ones left; the errors found and
\* the instance afterwards
iter_errors(instance, sch) ==
    LET i1 == KeywordInstance(sch.keywords[1], instance, sch)
        e1 == KeywordErrors(sch.keywords[1], i1, sch)
        i2 == KeywordInstance(sch.keywords[2], i1, sch)
        e2 == KeywordErrors(sch.keywords[2], i2, sch)
    IN  [ errors |-> e1 \cup e2, instance |-> i2 ]

\* sorted(errors, key=str) as a list
RECURSIVE SortedErrors(_)
SortedErrors(es) ==
    IF es = {} THEN << >>
    ELSE LET first == CHOOSE e \in es :
                        \A f \in es : ErrorRank(e) <= ErrorRank(f)
         IN  << first >> \o SortedErrors(es \ {first})

\* SchemaValidator.validate: the ValidationResult, and the data object as
\* the call leaves it
validate(d, sch) ==
    LET found == iter_errors(d, sch)
        errors == SortedErrors(found.errors)
    IN  [ result |-> [is_valid |-> Len(errors) = 0, errors |-> errors],
          data |-> found.instance ]

(* ----------------------- stages: store effects ------------------------ *)

\* the value each stage writes to documents.status in its final commit
StageStatus(s) ==
    CASE s = "ingest"                -> "ingested"
      [] s = "text_extraction"       -> "text_extracted"
      [] s = "layout_normalization"  -> "layout_normalized"
      [] s = "chunking"              -> "chunked"
      [] s = "embedding"             -> "embedded"
      [] s = "structured_extraction" -> "extracted"
      [] s = "validation"            -> "validated"
      [] s = "persistence"           -> "persisted"
      [] s = "metrics_and_audit"     -> "completed"

\* update(documents).where(id == d).values(status=st, updated_at=utcnow())
SetStatus(docs, d, st, t) ==
    IF d \in DOMAIN docs
    THEN [docs EXCEPT ![d].status = st, ![d].updated_at = t]
    ELSE docs

\* ChunkingStage._create_chunks on the texts of Contents: no chunk for the
\* empty text (chunking.py:99), one chunk for a text of one paragraph
\* (flushed at chunking.py:135-138, or the fallback of chunking.py:140).
_create_chunks(text) == IF text = "" THEN << >> ELSE << text >>

ChunkRowsOf(rows, d) == SelectSeq(rows, LAMBDA r : r.document_id = d)

\* The id an insert gives a row: the tables declare INTEGER PRIMARY KEY
\* (models.py:59, 82), for which sqlite, the default database, takes one
\* above the largest id present.
NextRowId(rows) ==
    IF rows = << >> THEN 1
    ELSE LET ids == { rows[k].id : k \in 1..Len(rows) }
         IN  (CHOOSE m \in ids : \A n \in ids : n <= m) + 1

\* the inserts without the delete before them
ReplaceChunksKeepingOld(rows, d, text_chunks) ==
    rows \o [k \in 1..Len(text_chunks) |->
            [id |-> NextRowId(rows) + k - 1, document_id |-> d,
             sequence |-> k - 1, text |-> text_chunks[k]]]

\* delete(chunks).where(document_id == d), then one insert per chunk with
\* its sequence (chunking.py:63-80)
ReplaceChunks(rows, d, text_chunks) ==
    LET kept == SelectSeq(rows, LAMBDA r : r.document_id # d)
    IN  kept \o [k \in 1..Len(text_chunks) |->
            [id |-> NextRowId(kept) + k - 1, document_id |-> d,
             sequence |-> k - 1, text |-> text_chunks[k]]]

\* the stages' checks with the comparison of the hashes left out of ingest
StageOwnErrorHashUnchecked(s, d, docs, raw) ==
    CASE s = "ingest" ->
            IF d \notin DOMAIN docs \/ raw[d] = NoRow
            THEN "PipelineStateError" ELSE NoError
      [] s = "text_extraction" ->
            IF d \notin DOMAIN docs \/ raw[d] = NoRow
            THEN "ExtractionError" ELSE NoError
      [] s = "chunking" ->
            IF d \notin DOMAIN docs \/ raw[d] = NoRow
            THEN "ChunkingError" ELSE NoError
      [] s = "structured_extraction" ->
            IF d \notin DOMAIN docs THEN "ExtractionError" ELSE NoError
      [] OTHER -> NoError

\* The exception stage s raises on document d from what it reads in the
\* store, NoError when it reads what it needs.
StageOwnError(s, d, docs, raw) ==
    CASE s = "ingest" ->
            IF d \notin DOMAIN docs THEN "PipelineStateError"
            ELSE IF raw[d] = NoRow THEN "PipelineStateError"
            ELSE IF hash_content(raw[d]) # docs[d].content_hash
                 THEN "PipelineStateError"
            ELSE NoError
      [] s = "text_extraction" ->
            IF d \notin DOMAIN docs \/ raw[d] = NoRow
            THEN "ExtractionError" ELSE NoError
      [] s = "chunking" ->
            IF d \notin DOMAIN docs \/ raw[d] = NoRow
            THEN "ChunkingError" ELSE NoError
      [] s = "structured_extraction" ->
            IF d \notin DOMAIN docs THEN "ExtractionError" ELSE NoError
      [] OTHER -> NoError

\* Whether the successful execute of stage s writes documents.status: the
\* embedding and structured_extraction stages return before their update
\* when the document has no chunk rows (embedding.py:42-47,
\* structured_extraction.py:61-66).
StageWritesStatus(s, d, rows) ==
    IF s \in {"embedding", "structured_extraction"}
    THEN ChunkRowsOf(rows, d) # << >>
    ELSE TRUE

\* documents after the commit of a successful execute of stage s
StageDocuments(s, d, docs, rows, t) ==
    IF StageWritesStatus(s, d, rows)
    THEN SetStatus(docs, d, StageStatus(s), t)
    ELSE docs

\* chunks after the commit of a successful execute of stage s
StageChunks(s, d, rows, raw) ==
    IF s = "chunking"
    THEN ReplaceChunks(rows, d, _create_chunks(raw[d]))
    ELSE rows

\* ids of the chunk rows of document d
ChunkIds(rows, d) ==
    { ChunkRowsOf(rows, d)[k].id : k \in 1..Len(ChunkRowsOf(rows, d)) }

\* json.dumps and json.loads
json_dumps(obj) == << "json", obj >>
json_loads(text) == text[2]

\* provider.embed_batch and provider.generate_structured, taken as
\* functions of the text they are given
embed(text) == << "vector", text >>
parsed_json(text) == [p \in Props |-> IF p = "x" THEN "'a'" ELSE Absent]

\* SchemaRegistry.get_schema: the schema file of the version
get_schema(schema_version) ==
    [ keywords |-> << "required", "properties" >>,
      required |-> IF schema_version = "v1" THEN {"x", "y"} ELSE {"x"},
      properties |-> [p \in Props |->
                        [type |-> "string", default |-> NoDefault]] ]

\* settings.storage_persist_prompts (settings.py:68)
storage_persist_prompts == TRUE

\* delete(embeddings).where(chunk_id.in_(ids)) (embedding.py:49-53)
DeleteEmbeddings(rows, ids) ==
    SelectSeq(rows, LAMBDA r : r.chunk_id \notin ids)

\* _process_batch: one embeddings row per chunk of the batch
\* (embedding.py:80-102)
InsertEmbeddings(rows, batch) ==
    rows \o [k \in 1..Len(batch) |->
                [chunk_id |-> batch[k].id, vector |-> embed(batch[k].text)]]

\* delete(extractions).where(chunk_id.in_(ids))
\* (structured_extraction.py:68-72): rows of the other tables that refer
\* to the deleted extractions are not touched, no foreign key of
\* models.py:100-147 cascading
DeleteExtractions(st, ids) ==
    [st EXCEPT !.extractions = SelectSeq(@, LAMBDA r : r.chunk_id \notin ids)]

\* the extractions row _process_chunk inserts for a chunk
\* (structured_extraction.py:125-141)
NewExtraction(rows, chunk, schema_version) ==
    [ id |-> NextRowId(rows), chunk_id |-> chunk.id,
      schema_version |-> schema_version,
      json_result |-> json_dumps(parsed_json(chunk.text)),
      is_valid |-> FALSE ]

\* the prompts row of an extraction (structured_extraction.py:143-152)
NewPrompt(extraction, chunk) ==
    [ extraction_id |-> extraction.id, prompt_text |-> chunk.text ]

\* _process_chunk on one chunk, committed
\* (structured_extraction.py:104-154)
ProcessChunk(st, chunk, schema_version) ==
    LET row == NewExtraction(st.extractions, chunk, schema_version)
    IN  [st EXCEPT
           !.extractions = Append(@, row),
           !.prompts = IF storage_persist_prompts
                       THEN Append(@, NewPrompt(row, chunk)) ELSE @]

\* a validation_errors row for the first error of a ValidationResult only
ErrorRowsFirstOnly(extraction_id, errors) ==
    IF errors = << >> THEN << >>
    ELSE << [ extraction_id |-> extraction_id,
              json_path |-> errors[1].json_path,
              message |-> errors[1].message ] >>

\* one validation_errors row per error of a ValidationResult
\* (validation.py:72-82)
ErrorRows(extraction_id, errors) ==
    [k \in 1..Len(errors) |->
        [ extraction_id |-> extraction_id,
          json_path |-> errors[k].json_path,
          message |-> errors[k].message ]]

\* the loop of the validation stage writing the instance the validator
\* filled back to json_result
RECURSIVE ValidateExtractionsWritingBack(_, _, _, _)
ValidateExtractionsWritingBack(st, ids, sch, k) ==
    IF k > Len(st.extractions) THEN st
    ELSE IF st.extractions[k].chunk_id \notin ids
         THEN ValidateExtractionsWritingBack(st, ids, sch, k + 1)
         ELSE LET row == st.extractions[k]
                  call == validate(json_loads(row.json_result), sch)
                  kept == SelectSeq(st.validation_errors,
                              LAMBDA r : r.extraction_id # row.id)
              IN  ValidateExtractionsWritingBack(
                      [st EXCEPT
                         !.extractions[k].is_valid = call.result.is_valid,
                         !.extractions[k].json_result = json_dumps(call.data),
                         !.validation_errors =
                              kept \o ErrorRows(row.id, call.result.errors)],
                      ids, sch, k + 1)

\* The loop of ValidationStage.execute from extraction row k on
\* (validation.py:50-84): for every extraction joined to a chunk of the
\* document its validation_errors are deleted, json_result is validated,
\* is_valid updated and one row inserted per error.
RECURSIVE ValidateExtractions(_, _, _, _)
ValidateExtractions(st, ids, sch, k) ==
    IF k > Len(st.extractions) THEN st
    ELSE IF st.extractions[k].chunk_id \notin ids
         THEN ValidateExtractions(st, ids, sch, k + 1)
         ELSE LET row == st.extractions[k]
                  res == validate(json_loads(row.json_result), sch).result
                  kept == SelectSeq(st.validation_errors,
                              LAMBDA r : r.extraction_id # row.id)
              IN  ValidateExtractions(
                      [st EXCEPT
                         !.extractions[k].is_valid = res.is_valid,
                         !.validation_errors =
                              kept \o ErrorRows(row.id, res.errors)],
                      ids, sch, k + 1)

\* the tables the stages write, as one record
CurrentStore ==
    [ documents |-> documents, chunks |-> chunks, embeddings |-> embeddings,
      extractions |-> extractions, prompts |-> prompts,
      validation_errors |-> validation_errors ]

\* Commits a successful execute of stage s makes: the embedding and
\* structured_extraction stages commit their delete, then every batch or
\* chunk, then the status (embedding.py:54, 102, 66;
\* structured_extraction.py:73, 154, 89); an embedding batch holds every
\* chunk of a document of Contents (settings.py:45).
StageCommits(s, d, rows) ==
    IF ChunkRowsOf(rows, d) = << >> THEN 1
    ELSE IF s = "embedding" THEN 3
    ELSE IF s = "structured_extraction" THEN Len(ChunkRowsOf(rows, d)) + 2
    ELSE 1

\* the store after commit number k of a successful execute of stage s
StageCommit(s, d, k, st, raw, t) ==
    LET rows == ChunkRowsOf(st.chunks, d)
        ids == ChunkIds(st.chunks, d)
        done == [st EXCEPT
                    !.documents = StageDocuments(s, d, @, st.chunks, t)]
    IN  IF k < StageCommits(s, d, st.chunks)
        THEN IF s = "embedding"
             THEN IF k = 1
                  THEN [st EXCEPT !.embeddings = DeleteEmbeddings(@, ids)]
                  ELSE [st EXCEPT !.embeddings = InsertEmbeddings(@, rows)]
             ELSE IF k = 1
                  THEN DeleteExtractions(st, ids)
                  ELSE ProcessChunk(st, rows[k - 1],
                                    st.documents[d].schema_version)
        ELSE IF s = "chunking"
             THEN [done EXCEPT !.chunks = StageChunks(s, d, @, raw)]
        ELSE IF s = "validation"
             THEN ValidateExtractions(done, ids,
                        get_schema(st.documents[d].schema_version), 1)
        ELSE done

\* documents after an execute that raised, were the failure written to
\* the document
FailedStageDocumentsMarked(s, d, docs) ==
    IF d \in DOMAIN docs THEN [docs EXCEPT ![d].status = "failed"] ELSE docs

\* documents after an execute of stage s that raised: the transaction that
\* holds the status update is rolled back
FailedStageDocuments(s, d, docs) == docs

(* ------------------------------ engine -------------------------------- *)

\* _is_stage_completed taking every finished run for a completed one
_is_stage_finished(runs, d, s) ==
    \E r \in 1..Len(runs) :
        /\ runs[r].document_id = d
        /\ runs[r].stage = s
        /\ runs[r].status # "running"

\* PipelineEngine._is_stage_completed
_is_stage_completed(runs, d, s) ==
    \E r \in 1..Len(runs) :
        /\ runs[r].document_id = d
        /\ runs[r].stage = s
        /\ runs[r].status = "completed"

\* attempt = 1 (engine.py:133)
FirstAttempt == 1

\* _create_run_record leaving attempt to the column default (models.py:45)
NewRunDefaultAttempt(d, s, a, t, corr) ==
    [ document_id |-> d, stage |-> s, status |-> "running", attempt |-> 1,
      error_type |-> NoError, error_message |-> 0, started_at |-> t,
      finished_at |-> 0, correlation_id |-> corr ]

\* the row _create_run_record inserts
NewRun(d, s, a, t, corr) ==
    [ document_id |-> d, stage |-> s, status |-> "running", attempt |-> a,
      error_type |-> NoError, error_message |-> 0, started_at |-> t,
      finished_at |-> 0, correlation_id |-> corr ]

\* the update of _complete_run_record without finished_at
CompletedRunUnfinished(row, t) == [row EXCEPT !.status = "completed"]

\* the update of _complete_run_record
CompletedRun(row, t) == [row EXCEPT !.status = "completed", !.finished_at = t]

\* the update of _fail_run_record; error_message is the number of
\* characters of the column (0 also while it is NULL)
FailedRun(row, error_type, error_message, t) ==
    [row EXCEPT !.status = "failed", !.error_type = error_type,
                !.error_message = IF error_message > 1000 THEN 1000
                                  ELSE error_message,
                !.finished_at = t]

\* PipelineEngine._get_run_stage
_get_run_stage(runs, rid) ==
    IF rid \in 1..Len(runs) THEN runs[rid].stage ELSE "unknown"

\* a metric labelled without reading the run's row
NewMetricUnknownStage(runs, rid) == [run_id |-> rid, stage |-> "unknown"]

\* the row both record writers insert into metrics
NewMetric(runs, rid) == [run_id |-> rid, stage |-> _get_run_stage(runs, rid)]

\* the except block retrying whatever was raised
RetryDecisionRetryAll(e, a, max_retries) ==
    IF a > max_retries THEN "raise" ELSE "retry"

\* the except block giving up one attempt early
RetryDecisionOffByOne(e, a, max_retries) ==
    IF ~is_retryable(e) THEN "raise"
    ELSE IF a >= max_retries THEN "raise"
    ELSE "retry"

\* What the except block does after _fail_run_record (engine.py:201-245):
\* "raise" for an error that is not retryable or when the attempts are
\* used up, "retry" otherwise.
RetryDecision(e, a, max_retries) ==
    IF ~is_retryable(e) THEN "raise"
    ELSE IF a > max_retries THEN "raise"
    ELSE "retry"

RECURSIVE Pow(_, _)
Pow(b, e) == IF e = 0 THEN 1 ELSE b * Pow(b, e - 1)

Min(a, b) == IF a <= b THEN a ELSE b

\* the backoff with the exponent attempt instead of attempt - 1
BackoffSecondsLate(base, max, a) == Min(Pow(base, a), max)

\* backoff = min(backoff_base ** (attempt - 1), backoff_max), in seconds
BackoffSeconds(base, max, a) == Min(Pow(base, a - 1), max)

\* One second, in units of 2^-RandomBits s.
Unit == Pow(2, RandomBits)

\* The float 0.5 + k/2^RandomBits in units of 2^-RandomBits.  Below 1.0 the
\* sum is exact; from 1.0 on the significand has one bit less than the sum
\* needs and IEEE-754 rounds to nearest, ties to even.
JitterFactor(k) ==
    LET n == Unit \div 2 + k
    IN  IF n < Unit \/ n % 2 = 0 THEN n
        ELSE IF (n + 1) % 4 = 0 THEN n + 1 ELSE n - 1

\* the argument of asyncio.sleep, in units of 2^-RandomBits s: backoff, or
\* backoff * (0.5 + random.random()) with random.random() = k/2^RandomBits
SleepUnits(base, max, a, jitter, k) ==
    IF jitter THEN BackoffSeconds(base, max, a) * JitterFactor(k)
    ELSE BackoffSeconds(base, max, a) * Unit

(* --------------------------- initial state ---------------------------- *)

\* The settings of the behaviours with several invocations: the defaults
\* of settings.py:53-55 for the backoff, every llm_max_retries of the bound.
DefaultBackoff ==
    { st \in SettingsDomain :
        /\ st.pipeline_retry_backoff_base = 2
        /\ st.pipeline_retry_backoff_max = 60
        /\ st.pipeline_retry_jitter }

\* One submitted document (status pending) with its raw content; its
\* content_hash is the hash of the content (documents.py:108, submit.py:55)
\* or the literal the tests store (tests/test_pipeline.py:38).  No
\* invocation of execute_pipeline has started.
InitStore ==
    /\ \E content \in Contents :
       \E h \in {hash_content(content), << "literal", "abc123" >>} :
         /\ documents = [d \in DocIds |->
                [status |-> "pending", updated_at |-> 0, content_hash |-> h,
                 schema_version |-> "v1"]]
         /\ raw_content = [d \in DocIds |-> content]
    /\ chunks = << >>
    /\ pipeline_runs = << >>
    /\ metrics = << >>
    /\ embeddings = << >>
    /\ extractions = << >>
    /\ prompts = << >>
    /\ validation_errors = << >>
    /\ step = [i \in Invocations |-> 0]
    /\ now = 1
    /\ faults = 0
    /\ pc = [i \in Invocations |-> "idle"]
    /\ document_id = [i \in Invocations |-> 0]
    /\ stage_idx = [i \in Invocations |-> 0]
    /\ attempt = [i \in Invocations |-> 0]
    /\ run_id = [i \in Invocations |-> 0]
    /\ error = [i \in Invocations |-> NoError]
    /\ results = [i \in Invocations |-> EmptyResults]
    /\ backoff = [i \in Invocations |-> NoSleep]
    /\ slept = [i \in Invocations |-> 0]

\* no document is in the store and execute_pipeline is not called
EngineUnused ==
    /\ settings = CHOOSE st \in DefaultBackoff : st.llm_max_retries = 0
    /\ callers = {}
    /\ documents = << >>
    /\ raw_content = << >>
    /\ chunks = << >>
    /\ pipeline_runs = << >>
    /\ metrics = << >>
    /\ embeddings = << >>
    /\ extractions = << >>
    /\ prompts = << >>
    /\ validation_errors = << >>
    /\ step = [i \in Invocations |-> 0]
    /\ now = 1
    /\ faults = 0
    /\ pc = [i \in Invocations |-> "idle"]
    /\ document_id = [i \in Invocations |-> 0]
    /\ stage_idx = [i \in Invocations |-> 0]
    /\ attempt = [i \in Invocations |-> 0]
    /\ run_id = [i \in Invocations |-> 0]
    /\ error = [i \in Invocations |-> NoError]
    /\ results = [i \in Invocations |-> EmptyResults]
    /\ backoff = [i \in Invocations |-> NoSleep]
    /\ slept = [i \in Invocations |-> 0]

\* no validate call is made outside the stages
ValidatorUnused ==
    /\ data = [p \in Props |-> Absent]
    /\ schema = [keywords |-> << "required", "properties" >>,
                 required |-> {},
                 properties |-> [p \in Props |->
                     [type |-> "string", default |-> NoDefault]]]
    /\ validation_results = << >>

\* no submission is in progress
NoRequest == [channel |-> "none", content |-> "", schema_version |-> "none"]
SubmitUnused ==
    /\ request = [r \in Requests |-> NoRequest]
    /\ submit_pc = [r \in Requests |-> "idle"]
    /\ response = [r \in Requests |-> 0]
    /\ background_tasks = << >>

\* no chunk task exists
NoPending == [extractions |-> << >>, prompts |-> << >>]
TasksUnused ==
    /\ max_concurrent = 1
    /\ stage_call = "unused"
    /\ task = << >>
    /\ semaphore = 0
    /\ pending = NoPending
    /\ gather_error = FALSE

\* no chunking stage runs on its own
ChunkerUnused ==
    /\ chunking = [chunk_size |-> 0, chunk_overlap |-> 0, min_chunk_size |-> 0]
    /\ chunker = [at |-> "unused", runs |-> 0, k |-> 0, chunks |-> << >>,
                  current_chunk |-> << >>, current_size |-> 0]

\* no provider is called
ProviderUnused ==
    /\ llm_provider = "openai"
    /\ exchange = << >>
    /\ outcome = << >>

\* no cost is computed
CostUnused == prices = [input |-> 0, output |-> 0]

\* no clock runs while a stage is awaited
DeadlineUnused == awaiting = [run |-> 0, seconds |-> 0]

\* no SchemaRegistry is called
RegistryUnused == registry = << >>

\* no provider is called, no chunking stage runs on its own, no cost is
\* computed, no clock runs and no registry is called
ServicesUnused ==
    /\ ProviderUnused
    /\ ChunkerUnused
    /\ CostUnused
    /\ DeadlineUnused
    /\ RegistryUnused

\* Any number of calls of execute_pipeline, one engine configuration.
Init ==
    /\ settings \in DefaultBackoff
    /\ callers = Invocations
    /\ InitStore
    /\ ValidatorUnused
    /\ SubmitUnused
    /\ TasksUnused
    /\ ServicesUnused

\* One call of execute_pipeline, every engine configuration.
InitOneCall ==
    /\ settings \in SettingsDomain
    /\ callers = {1}
    /\ InitStore
    /\ ValidatorUnused
    /\ SubmitUnused
    /\ TasksUnused
    /\ ServicesUnused

(* ------------------------------ actions ------------------------------- *)

\* the stage the for-loop of invocation i is at
CurrentStage(i) == get_ordered_stages[stage_idx[i]]

\* The faults of one behaviour: MaxFaults, and with a single call as many
\* as exhaust the retries of a stage.
FaultBudget == IF callers = {1} THEN MaxRetriesBound + 1 ELSE MaxFaults

\* invocation j is inside execute_pipeline
Active(j) == pc[j] \in {"check", "create", "exec", "complete", "fail",
                        "sleeping", "final"}

\* The schedules explored: a call made while an earlier invocation is
\* suspended at one of its awaits runs to its end before the earlier one
\* is resumed.
Scheduled(i) == \A j \in Invocations : j > i => ~Active(j)

\* execute_pipeline is called with document d and correlation id i
\* (engine.py:37-63).  Correlation ids are handed out in order.  A call
\* that overlaps a running invocation is explored in behaviours without
\* raises and crashes: it takes the whole budget of faults.
Start(i, d) ==
    /\ UNCHANGED << outsideEngine, outputVars, step >>
    /\ i \in callers
    /\ pc[i] = "idle"
    /\ \A j \in Invocations : j < i => pc[j] # "idle"
    /\ IF \E j \in Invocations : Active(j)
       THEN faults = 0 /\ faults' = FaultBudget
       ELSE faults' = faults
    /\ pc' = [pc EXCEPT ![i] = "check"]
    /\ document_id' = [document_id EXCEPT ![i] = d]
    /\ stage_idx' = [stage_idx EXCEPT ![i] = 1]
    /\ UNCHANGED << settings, callers, storeVars, now, attempt, run_id, error,
                    results, backoff, slept >>

\* The for-loop moves past the current stage, recorded with result res:
\* to the next stage, or to the final update after the last one.
NextStage(i, res) ==
    /\ results' = [results EXCEPT ![i][CurrentStage(i)] = res]
    /\ IF stage_idx[i] < Len(get_ordered_stages)
       THEN /\ stage_idx' = [stage_idx EXCEPT ![i] = stage_idx[i] + 1]
            /\ pc' = [pc EXCEPT ![i] = "check"]
       ELSE /\ stage_idx' = stage_idx
            /\ pc' = [pc EXCEPT ![i] = "final"]

\* engine.py:69-78 and 133: the completed-check of the current stage; a
\* completed stage is skipped, another one enters the retry loop
CheckStage(i) ==
    /\ UNCHANGED << outsideEngine, outputVars, step >>
    /\ pc[i] = "check"
    /\ Scheduled(i)
    /\ IF _is_stage_completed(pipeline_runs, document_id[i], CurrentStage(i))
       THEN /\ NextStage(i, "skipped")
            /\ UNCHANGED << attempt, slept >>
       ELSE /\ pc' = [pc EXCEPT ![i] = "create"]
            /\ attempt' = [attempt EXCEPT ![i] = FirstAttempt]
            /\ slept' = [slept EXCEPT ![i] = 0]
            /\ UNCHANGED << stage_idx, results >>
    /\ UNCHANGED << settings, callers, storeVars, now, faults, document_id, run_id,
                    error, backoff >>

\* _create_run_record (engine.py:136-141, 249-269)
CreateRun(i) ==
    /\ UNCHANGED << outsideEngine, outputVars, step >>
    /\ pc[i] = "create"
    /\ Scheduled(i)
    /\ pipeline_runs' = Append(pipeline_runs,
            NewRun(document_id[i], CurrentStage(i), attempt[i], now, i))
    /\ run_id' = [run_id EXCEPT ![i] = Len(pipeline_runs) + 1]
    /\ now' = now + 1
    /\ pc' = [pc EXCEPT ![i] = "exec"]
    /\ UNCHANGED << settings, callers, documents, raw_content, chunks, metrics, faults,
                    document_id, stage_idx, attempt, error, results, backoff,
                    slept >>

\* stage.execute(document_id) runs to its next commit (engine.py:157): it
\* raises what the store makes it raise before it writes anything, or
\* commits the next part of its output; after its last commit it returns
ExecuteStage(i) ==
    /\ UNCHANGED outsideEngine
    /\ pc[i] = "exec"
    /\ Scheduled(i)
    /\ LET s == CurrentStage(i)
           d == document_id[i]
           e == IF step[i] = 0
                THEN StageOwnError(s, d, documents, raw_content)
                ELSE NoError
           k == step[i] + 1
       IN  \E st \in { StageCommit(s, d, k, CurrentStore, raw_content, now) } :
           IF e = NoError
           THEN /\ documents' = st.documents
                /\ chunks' = st.chunks
                /\ embeddings' = st.embeddings
                /\ extractions' = st.extractions
                /\ prompts' = st.prompts
                /\ validation_errors' = st.validation_errors
                /\ IF k = StageCommits(s, d, chunks)
                   THEN /\ pc' = [pc EXCEPT ![i] = "complete"]
                        /\ step' = [step EXCEPT ![i] = 0]
                        /\ now' = now + 1
                   ELSE /\ pc' = pc
                        /\ step' = [step EXCEPT ![i] = k]
                        /\ now' = now
                /\ error' = error
           ELSE /\ documents' = FailedStageDocuments(s, d, documents)
                /\ error' = [error EXCEPT ![i] = e]
                /\ pc' = [pc EXCEPT ![i] = "fail"]
                /\ UNCHANGED << chunks, now, outputVars, step >>
    /\ UNCHANGED << settings, callers, raw_content, pipeline_runs, metrics, faults,
                    document_id, stage_idx, attempt, run_id, results, backoff,
                    slept >>

\* stage.execute(document_id) raises because of its environment: a provider
\* fault, a store fault, a bug of the stage (engine.py:157, 177)
StageRaises(i) ==
    /\ UNCHANGED << outsideEngine, outputVars >>
    /\ step' = [step EXCEPT ![i] = 0]
    /\ pc[i] = "exec"
    /\ Scheduled(i)
    /\ faults < FaultBudget
    /\ faults' = faults + 1
    /\ \E e \in InjectedErrors : error' = [error EXCEPT ![i] = e]
    /\ documents' =
          FailedStageDocuments(CurrentStage(i), document_id[i], documents)
    /\ pc' = [pc EXCEPT ![i] = "fail"]
    /\ UNCHANGED << settings, callers, raw_content, chunks, pipeline_runs, metrics,
                    now, document_id, stage_idx, attempt, run_id, results,
                    backoff, slept >>

\* _complete_run_record commits (engine.py:162, 271-293); the retry loop
\* returns "completed" and the for-loop records it (engine.py:175, 88)
CompleteRun(i) ==
    /\ UNCHANGED << outsideEngine, outputVars, step >>
    /\ pc[i] = "complete"
    /\ Scheduled(i)
    /\ pipeline_runs' = [pipeline_runs EXCEPT
            ![run_id[i]] = CompletedRun(pipeline_runs[run_id[i]], now)]
    /\ metrics' = Append(metrics, NewMetric(pipeline_runs, run_id[i]))
    /\ now' = now + 1
    /\ NextStage(i, "completed")
    /\ UNCHANGED << settings, callers, documents, raw_content, chunks, faults,
                    document_id, attempt, run_id, error, backoff, slept >>

\* _fail_run_record commits (engine.py:194-199, 295-325); then the except
\* block re-raises or computes the backoff and sleeps (engine.py:201-244)
FailRun(i) ==
    /\ UNCHANGED << outsideEngine, outputVars, step >>
    /\ pc[i] = "fail"
    /\ Scheduled(i)
    /\ pipeline_runs' = [pipeline_runs EXCEPT
            ![run_id[i]] = FailedRun(pipeline_runs[run_id[i]],
                                     classify_error(error[i]),
                                     MessageChars(error[i]), now)]
    /\ metrics' = Append(metrics, NewMetric(pipeline_runs, run_id[i]))
    /\ now' = now + 1
    /\ IF RetryDecision(error[i], attempt[i], settings.llm_max_retries)
            = "raise"
       THEN /\ pc' = [pc EXCEPT ![i] = "aborted"]
            /\ backoff' = backoff
       ELSE /\ pc' = [pc EXCEPT ![i] = "sleeping"]
            /\ \E k \in 0..(Unit - 1) :
                 backoff' = [backoff EXCEPT ![i] =
                    [ on |-> TRUE,
                      attempt |-> attempt[i],
                      units |-> SleepUnits(
                          settings.pipeline_retry_backoff_base,
                          settings.pipeline_retry_backoff_max,
                          attempt[i], settings.pipeline_retry_jitter, k) ]]
    /\ UNCHANGED << settings, callers, documents, raw_content, chunks, faults,
                    document_id, stage_idx, attempt, run_id, error, results,
                    slept >>

\* asyncio.sleep(backoff) returns; attempt += 1 (engine.py:244-245)
Wake(i) ==
    /\ UNCHANGED << outsideEngine, outputVars, step >>
    /\ pc[i] = "sleeping"
    /\ Scheduled(i)
    /\ attempt' = [attempt EXCEPT ![i] = attempt[i] + 1]
    /\ slept' = [slept EXCEPT ![i] = slept[i] + 1]
    /\ backoff' = [backoff EXCEPT ![i] = NoSleep]
    /\ pc' = [pc EXCEPT ![i] = "create"]
    /\ UNCHANGED << settings, callers, storeVars, now, faults, document_id, stage_idx,
                    run_id, error, results >>

\* the final update of documents and the return (engine.py:99-108)
Finish(i) ==
    /\ UNCHANGED << outsideEngine, outputVars, step >>
    /\ pc[i] = "final"
    /\ Scheduled(i)
    /\ documents' = SetStatus(documents, document_id[i], "completed", now)
    /\ now' = now + 1
    /\ pc' = [pc EXCEPT ![i] = "done"]
    /\ UNCHANGED << settings, callers, raw_content, chunks, pipeline_runs, metrics,
                    faults, document_id, stage_idx, attempt, run_id, error,
                    results, backoff, slept >>

\* The store raises in _create_run_record: nothing is committed and the
\* exception leaves execute_pipeline, the call being outside the try
\* (engine.py:136-145).
CreateRunRaises(i) ==
    /\ UNCHANGED << outsideEngine, outputVars, step >>
    /\ pc[i] = "create"
    /\ Scheduled(i)
    /\ faults < FaultBudget
    /\ faults' = faults + 1
    /\ error' = [error EXCEPT ![i] = "SQLAlchemyError"]
    /\ pc' = [pc EXCEPT ![i] = "aborted"]
    /\ UNCHANGED << settings, callers, storeVars, now, document_id, stage_idx, attempt,
                    run_id, results, backoff, slept >>

\* The store raises in _complete_run_record: its transaction is rolled back
\* and the exception is caught by the except block of the attempt, the call
\* being inside the try (engine.py:145-177).
CompleteRunRaises(i) ==
    /\ UNCHANGED << outsideEngine, outputVars, step >>
    /\ pc[i] = "complete"
    /\ Scheduled(i)
    /\ faults < FaultBudget
    /\ faults' = faults + 1
    /\ error' = [error EXCEPT ![i] = "SQLAlchemyError"]
    /\ pc' = [pc EXCEPT ![i] = "fail"]
    /\ UNCHANGED << settings, callers, storeVars, now, document_id, stage_idx, attempt,
                    run_id, results, backoff, slept >>

\* The store raises in _fail_run_record: its transaction is rolled back and
\* the exception leaves the except block (engine.py:194-199).
FailRunRaises(i) ==
    /\ UNCHANGED << outsideEngine, outputVars, step >>
    /\ pc[i] = "fail"
    /\ Scheduled(i)
    /\ faults < FaultBudget
    /\ faults' = faults + 1
    /\ error' = [error EXCEPT ![i] = "SQLAlchemyError"]
    /\ pc' = [pc EXCEPT ![i] = "aborted"]
    /\ UNCHANGED << settings, callers, storeVars, now, document_id, stage_idx, attempt,
                    run_id, results, backoff, slept >>

\* The process of invocation i dies: what it held in memory is lost, the
\* store keeps what was committed.
Crash(i) ==
    /\ UNCHANGED << outsideEngine, outputVars >>
    /\ step' = [step EXCEPT ![i] = 0]
    /\ Active(i)
    /\ Scheduled(i)
    /\ faults < FaultBudget
    /\ faults' = faults + 1
    /\ pc' = [pc EXCEPT ![i] = "crashed"]
    /\ stage_idx' = [stage_idx EXCEPT ![i] = 0]
    /\ attempt' = [attempt EXCEPT ![i] = 0]
    /\ run_id' = [run_id EXCEPT ![i] = 0]
    /\ error' = [error EXCEPT ![i] = NoError]
    /\ results' = [results EXCEPT ![i] = EmptyResults]
    /\ backoff' = [backoff EXCEPT ![i] = NoSleep]
    /\ slept' = [slept EXCEPT ![i] = 0]
    /\ UNCHANGED << settings, callers, storeVars, now, document_id >>

Next ==
    \/ \E i \in Invocations : \E d \in DocIds : Start(i, d)
    \/ \E i \in Invocations : CheckStage(i)
    \/ \E i \in Invocations : CreateRun(i)
    \/ \E i \in Invocations : ExecuteStage(i)
    \/ \E i \in Invocations : StageRaises(i)
    \/ \E i \in Invocations : CompleteRun(i)
    \/ \E i \in Invocations : FailRun(i)
    \/ \E i \in Invocations : Wake(i)
    \/ \E i \in Invocations : Finish(i)
    \/ \E i \in Invocations : CreateRunRaises(i)
    \/ \E i \in Invocations : CompleteRunRaises(i)
    \/ \E i \in Invocations : FailRunRaises(i)
    \/ \E i \in Invocations : Crash(i)

Spec == Init /\ [][Next]_vars

SpecOneCall == InitOneCall /\ [][Next]_vars

\* llm_max_retries of the behaviours with fairness
ResumeRetries == 1

\* The steps of an invocation that is not interrupted: the event loop runs
\* every task that is ready, so a call that can take a step takes one.
Proceed ==
    \E i \in Invocations :
        \/ CheckStage(i)
        \/ CreateRun(i)
        \/ ExecuteStage(i)
        \/ CompleteRun(i)
        \/ FailRun(i)
        \/ Wake(i)
        \/ Finish(i)

InitResume ==
    /\ Init
    /\ settings.llm_max_retries = ResumeRetries
    /\ \A d \in DocIds : hash_content(raw_content[d]) = documents[d].content_hash
SpecResume == InitResume /\ [][Next]_vars /\ WF_vars(Proceed)

(* ----------------- one call on any store ingest can find -------------- *)

\* One call of execute_pipeline on a document id whose documents row or
\* raw_content row may be missing (a row deleted behind the program, an id
\* never submitted) and whose content_hash may differ from the hash of the
\* content.
InitIngest ==
    /\ settings \in DefaultBackoff
    /\ callers = {1}
    /\ \E content \in Contents :
       \E h \in {hash_content(content), << "literal", "abc123" >>} :
         /\ documents \in
               { << >>,
                 [d \in DocIds |->
                    [status |-> "pending", updated_at |-> 0,
                     content_hash |-> h, schema_version |-> "v1"]] }
         /\ raw_content \in { [d \in DocIds |-> content],
                               [d \in DocIds |-> NoRow] }
    /\ chunks = << >>
    /\ pipeline_runs = << >>
    /\ metrics = << >>
    /\ embeddings = << >>
    /\ extractions = << >>
    /\ prompts = << >>
    /\ validation_errors = << >>
    /\ step = [i \in Invocations |-> 0]
    /\ now = 1
    /\ faults = 0
    /\ pc = [i \in Invocations |-> "idle"]
    /\ document_id = [i \in Invocations |-> 0]
    /\ stage_idx = [i \in Invocations |-> 0]
    /\ attempt = [i \in Invocations |-> 0]
    /\ run_id = [i \in Invocations |-> 0]
    /\ error = [i \in Invocations |-> NoError]
    /\ results = [i \in Invocations |-> EmptyResults]
    /\ backoff = [i \in Invocations |-> NoSleep]
    /\ slept = [i \in Invocations |-> 0]
    /\ ValidatorUnused
    /\ SubmitUnused
    /\ TasksUnused
    /\ ServicesUnused

SpecIngest == InitIngest /\ [][Next]_vars

(* ------------- submissions: documents.py and cli submit.py ------------ *)

Channels == {"api", "cli"}
SchemaVersions == {"v1", "v2"}

\* the row both channels insert into documents
NewDocument(content, schema_version, t) ==
    [ status |-> "pending", updated_at |-> t,
      content_hash |-> hash_content(content),
      schema_version |-> schema_version ]

\* select(documents).where(content_hash == h, schema_version == v)
\* .fetchone(): the id of a matching row, 0 when there is none
ExistingDocument(docs, h, v) ==
    IF \E d \in DOMAIN docs :
          docs[d].content_hash = h /\ docs[d].schema_version = v
    THEN CHOOSE d \in DOMAIN docs :
          docs[d].content_hash = h /\ docs[d].schema_version = v
    ELSE 0

\* an empty store, no submission made yet
InitSubmit ==
    /\ request = [r \in Requests |-> NoRequest]
    /\ submit_pc = [r \in Requests |-> "idle"]
    /\ response = [r \in Requests |-> 0]
    /\ background_tasks = << >>
    /\ EngineUnused
    /\ ValidatorUnused
    /\ TasksUnused
    /\ ServicesUnused

\* A request arrives: the content is read and hashed (documents.py:97-108,
\* submit.py:50-55).
Submit(r) ==
    /\ submit_pc[r] = "idle"
    /\ \E ch \in Channels : \E c \in Contents : \E v \in SchemaVersions :
          /\ request' = [request EXCEPT ![r] =
                [channel |-> ch, content |-> c, schema_version |-> v]]
          /\ submit_pc' = [submit_pc EXCEPT ![r] =
                IF ch = "api" THEN "select" ELSE "insert"]
    /\ UNCHANGED << response, background_tasks, engineVars, validatorVars,
                    taskVars, serviceVars >>

\* POST /documents handing run_pipeline to the background tasks for the
\* document it found as well
ApiSelectRescheduling(r) ==
    /\ submit_pc[r] = "select"
    /\ LET found == ExistingDocument(documents,
                        hash_content(request[r].content),
                        request[r].schema_version)
       IN  IF found # 0
           THEN /\ response' = [response EXCEPT ![r] = found]
                /\ submit_pc' = [submit_pc EXCEPT ![r] = "returned"]
                /\ background_tasks' = Append(background_tasks, found)
           ELSE /\ response' = response
                /\ submit_pc' = [submit_pc EXCEPT ![r] = "insert"]
                /\ background_tasks' = background_tasks
    /\ UNCHANGED << request, engineVars, validatorVars, taskVars,
                    serviceVars >>

\* POST /documents looks for a document with the same hash and schema
\* (documents.py:113-138): found, it is returned.
ApiSelect(r) ==
    /\ submit_pc[r] = "select"
    /\ LET found == ExistingDocument(documents,
                        hash_content(request[r].content),
                        request[r].schema_version)
       IN  IF found # 0
           THEN /\ response' = [response EXCEPT ![r] = found]
                /\ submit_pc' = [submit_pc EXCEPT ![r] = "returned"]
           ELSE /\ response' = response
                /\ submit_pc' = [submit_pc EXCEPT ![r] = "insert"]
    /\ UNCHANGED << request, background_tasks, engineVars, validatorVars,
                    taskVars, serviceVars >>

\* The documents and raw_content rows are inserted and committed
\* (documents.py:140-165, submit.py:61-86); POST /documents then hands
\* run_pipeline for the new document to the background tasks
\* (documents.py:178).
InsertDocument(r) ==
    /\ submit_pc[r] = "insert"
    /\ background_tasks' =
          IF request[r].channel = "api"
          THEN Append(background_tasks, Len(documents) + 1)
          ELSE background_tasks
    /\ documents' = Append(documents,
          NewDocument(request[r].content, request[r].schema_version, now))
    /\ raw_content' = Append(raw_content, request[r].content)
    /\ now' = now + 1
    /\ response' = [response EXCEPT ![r] = Len(documents) + 1]
    /\ submit_pc' = [submit_pc EXCEPT ![r] = "returned"]
    /\ UNCHANGED << request, settings, callers, chunks, pipeline_runs,
                    metrics, faults, localVars, outputVars, step,
                    validatorVars, taskVars, serviceVars >>

NextSubmit ==
    \/ \E r \in Requests : Submit(r)
    \/ \E r \in Requests : ApiSelect(r)
    \/ \E r \in Requests : InsertDocument(r)

SpecSubmit == InitSubmit /\ [][NextSubmit]_vars

(* ------------- POST /documents and its background pipelines ----------- *)

\* requests POST /api/v1/documents receives
ApiRequests == 2

\* An empty store and an engine per background task, with one retry.
InitApi ==
    /\ settings = CHOOSE st \in DefaultBackoff : st.llm_max_retries = 1
    /\ callers = Invocations
    /\ documents = << >>
    /\ raw_content = << >>
    /\ chunks = << >>
    /\ pipeline_runs = << >>
    /\ metrics = << >>
    /\ embeddings = << >>
    /\ extractions = << >>
    /\ prompts = << >>
    /\ validation_errors = << >>
    /\ step = [i \in Invocations |-> 0]
    /\ now = 1
    /\ faults = 0
    /\ pc = [i \in Invocations |-> "idle"]
    /\ document_id = [i \in Invocations |-> 0]
    /\ stage_idx = [i \in Invocations |-> 0]
    /\ attempt = [i \in Invocations |-> 0]
    /\ run_id = [i \in Invocations |-> 0]
    /\ error = [i \in Invocations |-> NoError]
    /\ results = [i \in Invocations |-> EmptyResults]
    /\ backoff = [i \in Invocations |-> NoSleep]
    /\ slept = [i \in Invocations |-> 0]
    /\ SubmitUnused
    /\ ValidatorUnused
    /\ TasksUnused
    /\ ServicesUnused

\* POST /api/v1/documents arrives with the same bytes and schema_version
\* as every other request (documents.py:97-108).  Requests are numbered
\* in their order of arrival.
PostDocument(r) ==
    /\ r \in 1..ApiRequests
    /\ submit_pc[r] = "idle"
    /\ \A q \in 1..(r - 1) : submit_pc[q] # "idle"
    /\ request' = [request EXCEPT ![r] =
          [channel |-> "api", content |-> "one paragraph",
           schema_version |-> "v1"]]
    /\ submit_pc' = [submit_pc EXCEPT ![r] = "select"]
    /\ UNCHANGED << response, background_tasks, engineVars, validatorVars,
                    taskVars, serviceVars >>

\* The background task number i runs: run_pipeline calls execute_pipeline
\* with the document it was added for (documents.py:42-60).
RunPipeline(i) ==
    /\ i \in 1..Len(background_tasks)
    /\ Start(i, background_tasks[i])

NextApi ==
    \/ \E r \in Requests : PostDocument(r)
    \/ \E r \in Requests : ApiSelect(r)
    \/ \E r \in Requests : InsertDocument(r)
    \/ \E i \in Invocations : RunPipeline(i)
    \/ \E i \in Invocations : CheckStage(i)
    \/ \E i \in Invocations : CreateRun(i)
    \/ \E i \in Invocations : ExecuteStage(i)
    \/ \E i \in Invocations : StageRaises(i)
    \/ \E i \in Invocations : CompleteRun(i)
    \/ \E i \in Invocations : FailRun(i)
    \/ \E i \in Invocations : Wake(i)
    \/ \E i \in Invocations : Finish(i)
    \/ \E i \in Invocations : CreateRunRaises(i)
    \/ \E i \in Invocations : CompleteRunRaises(i)
    \/ \E i \in Invocations : FailRunRaises(i)
    \/ \E i \in Invocations : Crash(i)

SpecApi == InitApi /\ [][NextApi]_vars

(* -------------------- SchemaValidator on its own ---------------------- *)

\* validate calls made on one data object
MaxValidateCalls == 2

\* a caller holds a data object and a schema
InitValidator ==
    /\ data \in JsonObjects
    /\ schema \in Schemas
    /\ validation_results = << >>
    /\ EngineUnused
    /\ SubmitUnused
    /\ TasksUnused
    /\ ServicesUnused

\* validator.validate(data, schema) on the object the caller holds
Validate ==
    /\ Len(validation_results) < MaxValidateCalls
    /\ validation_results' =
          Append(validation_results, validate(data, schema).result)
    /\ data' = validate(data, schema).data
    /\ UNCHANGED << schema, engineVars, submitVars, taskVars, serviceVars >>

NextValidator == Validate

SpecValidator == InitValidator /\ [][NextValidator]_vars

(* -------------------- ValidationStage on its own ---------------------- *)

\* executions of the validation stage on one document
MaxValidationRuns == 2

\* A document of two chunks after structured_extraction: one extraction
\* per chunk with any json_result, the second already validated by an
\* earlier run, and a validation_errors row an earlier run left for the
\* first; the schema of the document's schema_version is any of Schemas.
InitValidation ==
    /\ schema \in Schemas
    /\ data = [p \in Props |-> Absent]
    /\ validation_results = << >>
    /\ documents = [d \in DocIds |->
            [status |-> "extracted", updated_at |-> 0,
             content_hash |-> hash_content("two paragraphs"),
             schema_version |-> "v1"]]
    /\ raw_content = [d \in DocIds |-> "two paragraphs"]
    /\ chunks = << [id |-> 1, document_id |-> 1, sequence |-> 0, text |-> "one"],
                   [id |-> 2, document_id |-> 1, sequence |-> 1, text |-> "two"] >>
    /\ \E o1 \in JsonObjects : \E o2 \in JsonObjects :
          extractions =
            << [id |-> 1, chunk_id |-> 1, schema_version |-> "v1",
                json_result |-> json_dumps(o1), is_valid |-> FALSE],
               [id |-> 2, chunk_id |-> 2, schema_version |-> "v1",
                json_result |-> json_dumps(o2), is_valid |-> TRUE] >>
    /\ validation_errors =
          << [extraction_id |-> 1, json_path |-> << "$." >>,
              message |-> << "z", "is a required property" >>] >>
    /\ prompts = << >>
    /\ embeddings = << >>
    /\ pipeline_runs = << >>
    /\ metrics = << >>
    /\ settings = CHOOSE st \in DefaultBackoff : st.llm_max_retries = 0
    /\ callers = {}
    /\ step = [i \in Invocations |-> 0]
    /\ now = 1
    /\ faults = 0
    /\ pc = [i \in Invocations |-> "idle"]
    /\ document_id = [i \in Invocations |-> 0]
    /\ stage_idx = [i \in Invocations |-> 0]
    /\ attempt = [i \in Invocations |-> 0]
    /\ run_id = [i \in Invocations |-> 0]
    /\ error = [i \in Invocations |-> NoError]
    /\ results = [i \in Invocations |-> EmptyResults]
    /\ backoff = [i \in Invocations |-> NoSleep]
    /\ slept = [i \in Invocations |-> 0]
    /\ SubmitUnused
    /\ TasksUnused
    /\ ServicesUnused

\* ValidationStage.execute(d) runs to its commit (validation.py:24-91)
RunValidation(d) ==
    /\ now <= MaxValidationRuns
    /\ \E st \in { ValidateExtractions(
                      [CurrentStore EXCEPT
                          !.documents = StageDocuments("validation", d, @,
                                                       chunks, now)],
                      ChunkIds(chunks, d), schema, 1) } :
          /\ documents' = st.documents
          /\ extractions' = st.extractions
          /\ validation_errors' = st.validation_errors
    /\ now' = now + 1
    /\ UNCHANGED << settings, callers, raw_content, chunks, pipeline_runs,
                    metrics, embeddings, prompts, step, faults, localVars,
                    outsideEngine >>

NextValidation == \E d \in DocIds : RunValidation(d)

SpecValidation == InitValidation /\ [][NextValidation]_vars

(* ------------- StructuredExtractionStage: the chunk tasks -------------- *)

\* chunks of the document, largest pipeline_max_concurrent_chunks, and
\* attempts of the stage
TaskChunks == 3
MaxConcurrent == 2
MaxStageAttempts == 2

\* where a chunk task stands: waiting for the semaphore, then inside
\* _process_chunk before each of its awaits
Inside == {"calling", "insert", "prompt", "commit"}

\* asyncio.Semaphore.acquire taking a slot whatever the value is
CanEnterAlways(value) == TRUE

\* asyncio.Semaphore.acquire returns at once when the value is positive
\* (structured_extraction.py:76, 79)
CanEnter(value) == value > 0

\* conn.commit() that loses the rows written on conn
CommitRowsLost(rows, written) == rows

\* conn.commit() (structured_extraction.py:154): the rows written on conn
\* since its last commit are in the table
CommitRows(rows, written) == rows \o written

\* engine vars the chunk tasks leave alone
taskQuiet == << settings, callers, raw_content, chunks, embeddings,
                validation_errors, faults, localVars, step, validatorVars,
                submitVars, serviceVars >>

\* A document of TaskChunks chunks whose structured_extraction run was
\* created (engine.py:146); an earlier attempt may have left an extraction.
InitChunkTasks ==
    /\ max_concurrent \in 1..MaxConcurrent
    /\ stage_call = "delete"
    /\ task = [c \in 1..TaskChunks |-> "none"]
    /\ semaphore = 0
    /\ pending = NoPending
    /\ gather_error = FALSE
    /\ documents = [d \in DocIds |->
            [status |-> "embedded", updated_at |-> 0,
             content_hash |-> hash_content("one paragraph"),
             schema_version |-> "v1"]]
    /\ raw_content = [d \in DocIds |-> "one paragraph"]
    /\ chunks = [c \in 1..TaskChunks |->
            [id |-> c, document_id |-> 1, sequence |-> c - 1,
             text |-> "one paragraph"]]
    /\ extractions \in
          { << >>,
            << [id |-> 1, chunk_id |-> 1, schema_version |-> "v1",
                json_result |-> json_dumps(parsed_json("one paragraph")),
                is_valid |-> FALSE] >> }
    /\ prompts = << >>
    /\ validation_errors = << >>
    /\ embeddings = << >>
    /\ pipeline_runs = << NewRun(1, "structured_extraction", FirstAttempt, 1, 1) >>
    /\ metrics = << >>
    /\ settings = CHOOSE st \in DefaultBackoff : st.llm_max_retries = 0
    /\ callers = {}
    /\ step = [i \in Invocations |-> 0]
    /\ now = 2
    /\ faults = 0
    /\ pc = [i \in Invocations |-> "idle"]
    /\ document_id = [i \in Invocations |-> 0]
    /\ stage_idx = [i \in Invocations |-> 0]
    /\ attempt = [i \in Invocations |-> 0]
    /\ run_id = [i \in Invocations |-> 0]
    /\ error = [i \in Invocations |-> NoError]
    /\ results = [i \in Invocations |-> EmptyResults]
    /\ backoff = [i \in Invocations |-> NoSleep]
    /\ slept = [i \in Invocations |-> 0]
    /\ ValidatorUnused
    /\ SubmitUnused
    /\ ServicesUnused

\* execute deletes the extractions of the document's chunks, commits,
\* makes the semaphore and hands one task per chunk row to gather
\* (structured_extraction.py:68-82)
StageDeletes ==
    /\ stage_call = "delete"
    /\ extractions' = DeleteExtractions(CurrentStore, ChunkIds(chunks, 1)).extractions
    /\ semaphore' = max_concurrent
    /\ task' = [c \in DOMAIN task |-> "waiting"]
    /\ pending' = NoPending
    /\ gather_error' = FALSE
    /\ stage_call' = "gather"
    /\ UNCHANGED << max_concurrent, documents, prompts, pipeline_runs,
                    metrics, now, taskQuiet >>

\* async with semaphore: the task of chunk c takes a slot
\* (structured_extraction.py:79)
Enter(c) ==
    /\ task[c] = "waiting"
    /\ CanEnter(semaphore)
    /\ semaphore' = semaphore - 1
    /\ task' = [task EXCEPT ![c] = "calling"]
    /\ UNCHANGED << max_concurrent, stage_call, pending, gather_error,
                    documents, extractions, prompts, pipeline_runs, metrics,
                    now, taskQuiet >>

\* provider.generate_structured returns (structured_extraction.py:114-119)
ModelReturns(c) ==
    /\ task[c] = "calling"
    /\ task' = [task EXCEPT ![c] = "insert"]
    /\ UNCHANGED << max_concurrent, stage_call, semaphore, pending,
                    gather_error, documents, extractions, prompts,
                    pipeline_runs, metrics, now, taskQuiet >>

\* conn is open: execute has not left its async with block
ConnOpen == stage_call = "gather"

\* insert(extractions) on the connection the tasks share
\* (structured_extraction.py:125-141)
InsertExtraction(c) ==
    /\ task[c] = "insert"
    /\ ConnOpen
    /\ pending' = [pending EXCEPT !.extractions =
            Append(@, NewExtraction(extractions \o pending.extractions,
                                    chunks[c], documents[1].schema_version))]
    /\ task' = [task EXCEPT ![c] = "prompt"]
    /\ UNCHANGED << max_concurrent, stage_call, semaphore, gather_error,
                    documents, extractions, prompts, pipeline_runs, metrics,
                    now, taskQuiet >>

\* result.inserted_primary_key[0] of the task of chunk c: the id of the
\* row it inserted, the last of the chunk (structured_extraction.py:141)
InsertedId(rows, c) ==
    LET ks == { k \in 1..Len(rows) : rows[k].chunk_id = c }
    IN  rows[CHOOSE k \in ks : \A j \in ks : j <= k].id

\* insert(prompts) for the extraction the task inserted
\* (structured_extraction.py:143-152)
InsertPrompt(c) ==
    /\ task[c] = "prompt"
    /\ ConnOpen
    /\ pending' = [pending EXCEPT !.prompts =
            IF storage_persist_prompts
            THEN Append(@, [extraction_id |->
                                InsertedId(extractions \o pending.extractions, c),
                            prompt_text |-> chunks[c].text])
            ELSE @]
    /\ task' = [task EXCEPT ![c] = "commit"]
    /\ UNCHANGED << max_concurrent, stage_call, semaphore, gather_error,
                    documents, extractions, prompts, pipeline_runs, metrics,
                    now, taskQuiet >>

\* conn.commit() of the task of chunk c commits what every task wrote on
\* conn; the task returns and leaves the semaphore
\* (structured_extraction.py:154, 79)
TaskCommits(c) ==
    /\ task[c] = "commit"
    /\ ConnOpen
    /\ extractions' = CommitRows(extractions, pending.extractions)
    /\ prompts' = CommitRows(prompts, pending.prompts)
    /\ pending' = NoPending
    /\ semaphore' = semaphore + 1
    /\ task' = [task EXCEPT ![c] = "done"]
    /\ UNCHANGED << max_concurrent, stage_call, gather_error, documents,
                    pipeline_runs, metrics, now, taskQuiet >>

\* The task of chunk c raises inside _process_chunk: the provider or the
\* store raises, or conn is closed.  async with releases the slot
\* (structured_extraction.py:79) and gather will raise in execute.
TaskFails(c) ==
    /\ task[c] \in Inside
    /\ semaphore' = semaphore + 1
    /\ task' = [task EXCEPT ![c] = "failed"]
    /\ gather_error' = TRUE
    /\ UNCHANGED << max_concurrent, stage_call, pending, documents,
                    extractions, prompts, pipeline_runs, metrics, now,
                    taskQuiet >>

\* gather raises the first exception in execute without cancelling the
\* other tasks; the async with block of conn rolls back what is not
\* committed and closes conn (structured_extraction.py:82, 37;
\* connection.py:67-72)
GatherRaises ==
    /\ stage_call = "gather"
    /\ gather_error
    /\ pending' = NoPending
    /\ stage_call' = "raised"
    /\ UNCHANGED << max_concurrent, task, semaphore, gather_error, documents,
                    extractions, prompts, pipeline_runs, metrics, now,
                    taskQuiet >>

\* gather returns when every task returned; the status is written and
\* committed (structured_extraction.py:82-89)
GatherReturns ==
    /\ stage_call = "gather"
    /\ \A c \in DOMAIN task : task[c] = "done"
    /\ documents' = StageDocuments("structured_extraction", 1, documents,
                                   chunks, now)
    /\ now' = now + 1
    /\ stage_call' = "returned"
    /\ UNCHANGED << max_concurrent, task, semaphore, pending, gather_error,
                    extractions, prompts, pipeline_runs, metrics, taskQuiet >>

\* _complete_run_record (engine.py:162, 271-293)
RunCompleted ==
    /\ stage_call = "returned"
    /\ pipeline_runs' = [pipeline_runs EXCEPT ![Len(pipeline_runs)] =
            CompletedRun(@, now)]
    /\ metrics' = Append(metrics, NewMetric(pipeline_runs, Len(pipeline_runs)))
    /\ now' = now + 1
    /\ stage_call' = "completed"
    /\ UNCHANGED << max_concurrent, task, semaphore, pending, gather_error,
                    documents, extractions, prompts, taskQuiet >>

\* _fail_run_record (engine.py:194-199, 295-325)
RunFailed ==
    /\ stage_call = "raised"
    /\ pipeline_runs' = [pipeline_runs EXCEPT ![Len(pipeline_runs)] =
            FailedRun(@, classify_error("TransientExternalError"),
                      MessageChars("TransientExternalError"), now)]
    /\ metrics' = Append(metrics, NewMetric(pipeline_runs, Len(pipeline_runs)))
    /\ now' = now + 1
    /\ stage_call' = "failed"
    /\ UNCHANGED << max_concurrent, task, semaphore, pending, gather_error,
                    documents, extractions, prompts, taskQuiet >>

\* The retry loop sleeps and creates the run of the next attempt
\* (engine.py:244-245, 146).  The schedules explored: the tasks the failed
\* attempt left behind, whose provider and connection are closed, have
\* ended when the sleep returns.
NextAttempt ==
    /\ stage_call = "failed"
    /\ Len(pipeline_runs) < MaxStageAttempts
    /\ \A c \in DOMAIN task : task[c] \in {"done", "failed"}
    /\ pipeline_runs' = Append(pipeline_runs,
            NewRun(1, "structured_extraction", Len(pipeline_runs) + 1, now, 1))
    /\ now' = now + 1
    /\ stage_call' = "delete"
    /\ UNCHANGED << max_concurrent, task, semaphore, pending, gather_error,
                    documents, extractions, prompts, metrics, taskQuiet >>

NextChunkTasks ==
    \/ StageDeletes
    \/ \E c \in 1..TaskChunks : Enter(c)
    \/ \E c \in 1..TaskChunks : ModelReturns(c)
    \/ \E c \in 1..TaskChunks : InsertExtraction(c)
    \/ \E c \in 1..TaskChunks : InsertPrompt(c)
    \/ \E c \in 1..TaskChunks : TaskCommits(c)
    \/ \E c \in 1..TaskChunks : TaskFails(c)
    \/ GatherRaises
    \/ GatherReturns
    \/ RunCompleted
    \/ RunFailed
    \/ NextAttempt

SpecChunkTasks == InitChunkTasks /\ [][NextChunkTasks]_vars

(* ------------- services/llm: generate_structured on its own ----------- *)

\* Python's None where a string is expected
None == << "None" >>

\* The text a model returns, as its pieces: a JSON value, prose, and the
\* markdown fences the providers strip ([fence] is three backquotes).
ModelTexts ==
    { << >>, << "{'x': 1}" >>, << "prose" >>,
      << "[fence]json", "{'x': 1}", "[fence]" >>, << "[fence]", "{'x': 1}", "[fence]" >>,
      << "[fence]json", "{'x': 1}" >>, << "[fence]json", "prose", "[fence]" >> }

\* What `await self.client.post(...)` gives: an httpx exception of the
\* transport, or a response with a status code and a body.  Of the body:
\* whether it is JSON text, whether its top-level value is a list, how
\* many entries the list read has (choices, or the top-level list), whether
\* the key read is there ("choices", "generated_text") and the text under
\* it.
Exchanges ==
    [ raised : {"TimeoutException", "NetworkError", "ProtocolError"} ]
    \cup
    [ status_code : {200, 201, 204, 302, 400, 404, 429, 500, 503},
      json : BOOLEAN, list : BOOLEAN, entries : 0..1, key : BOOLEAN,
      text : ModelTexts \cup {None} ]

\* the server error test with 500 itself left out
ServerErrorAbove500(status_code) == status_code > 500

\* response.status_code >= 500 (openai_provider.py:80,
\* huggingface_provider.py:77)
ServerError(status_code) == status_code >= 500

\* The fences stripped and json.loads applied to what is left
\* (openai_provider.py:100-120, huggingface_provider.py:101-120): the
\* exception raised, or NoError.
ParseContent(raw_response) ==
    LET c1 == IF raw_response # << >> /\ Head(raw_response) = "[fence]json"
              THEN Tail(raw_response) ELSE raw_response
        c2 == IF c1 # << >> /\ Head(c1) = "[fence]"
              THEN Tail(c1) ELSE c1
        c3 == IF c2 # << >> /\ c2[Len(c2)] = "[fence]"
              THEN SubSeq(c2, 1, Len(c2) - 1) ELSE c2
    IN  IF raw_response = None THEN "AttributeError"
        ELSE IF c3 = << "{'x': 1}" >> THEN NoError
        ELSE "ModelOutputError"

\* The exception a provider raises on an exchange, or NoError when it
\* returns an LLMResponse: the status checks, response.json(), the read of
\* the generated text, and the parse of it.  An httpx exception is
\* translated when an except clause names a class of it.
GenerateStructured(p, x) ==
    IF "raised" \in DOMAIN x
    THEN IF x.raised \in {"TimeoutException", "NetworkError"}
         THEN "TransientExternalError" ELSE x.raised
    ELSE IF x.status_code = 429 THEN "TransientExternalError"
    ELSE IF ServerError(x.status_code) THEN "TransientExternalError"
    ELSE IF x.status_code # 200 THEN "ModelOutputError"
    ELSE IF ~ x.json THEN "JSONDecodeError"
    ELSE IF p = "openai"
    THEN IF x.list THEN "TypeError"
         ELSE IF ~ x.key THEN "KeyError"
         ELSE IF x.entries = 0 THEN "IndexError"
         ELSE ParseContent(x.text)
    ELSE IF x.list /\ x.entries = 0 THEN "AttributeError"
         ELSE ParseContent(IF x.key THEN x.text ELSE << >>)

\* a stage holds a provider of either kind (factory.py:10-17)
InitProvider ==
    /\ llm_provider \in {"openai", "huggingface"}
    /\ exchange = << >>
    /\ outcome = << >>
    /\ EngineUnused
    /\ ValidatorUnused
    /\ SubmitUnused
    /\ TasksUnused
    /\ ChunkerUnused
    /\ CostUnused
    /\ DeadlineUnused
    /\ RegistryUnused

\* generate_structured awaits client.post and the server, or the
\* transport, answers
Post ==
    /\ exchange = << >>
    /\ \E x \in Exchanges : exchange' = << x >>
    /\ UNCHANGED << llm_provider, outcome, engineVars, validatorVars,
                    submitVars, taskVars, chunkerVars, prices, awaiting, registry >>

\* generate_structured handles what client.post gave and returns or raises
Return ==
    /\ exchange # << >>
    /\ outcome = << >>
    /\ outcome' = << GenerateStructured(llm_provider, exchange[1]) >>
    /\ UNCHANGED << llm_provider, exchange, engineVars, validatorVars,
                    submitVars, taskVars, chunkerVars, prices, awaiting, registry >>

NextProvider == Post \/ Return

SpecProvider == InitProvider /\ [][NextProvider]_vars

(* ---------------------- ChunkingStage on its own ---------------------- *)

\* paragraphs of one text, blank ones included
MaxParagraphs == 3

\* executions of the chunking stage on one document
MaxChunkingRuns == 2

\* A paragraph after para.strip(), by what the chunker reads of it:
\* _count_tokens(para) and len(para); the blank paragraph has neither.
Paragraphs ==
    { [tokens |-> 0, chars |-> 0], [tokens |-> 1, chars |-> 2],
      [tokens |-> 60, chars |-> 240], [tokens |-> 100, chars |-> 400],
      [tokens |-> 150, chars |-> 600] }

\* the texts re.split gives at most MaxParagraphs paragraphs for
Texts == UNION { [1..n -> Paragraphs] : n \in 0..MaxParagraphs }

\* chunk_size, chunk_overlap, chunk_min_size (settings.py:58-60)
ChunkingSettings ==
    [ chunk_size : {100}, chunk_overlap : {0, 20}, min_chunk_size : {1, 100} ]

RECURSIVE Sum(_)
Sum(ns) == IF ns = << >> THEN 0 ELSE Head(ns) + Sum(Tail(ns))

\* len("\n\n".join(current_chunk))
JoinedChars(current_chunk) ==
    IF current_chunk = << >> THEN 0
    ELSE Sum([k \in 1..Len(current_chunk) |-> current_chunk[k].chars])
         + 2 * (Len(current_chunk) - 1)

\* chunks.append(chunk_text) if the joined text has min_chunk_size
\* characters (chunking.py:118-120, 136-138)
Flush(text_chunks, current_chunk, min_chunk_size) ==
    IF JoinedChars(current_chunk) >= min_chunk_size
    THEN Append(text_chunks, current_chunk) ELSE text_chunks

\* text[:self.chunk_size], the fallback (chunking.py:140): the paragraphs
\* that lie in the first chunk_size characters, the one cut included
Fallback(text, chunk_size) ==
    LET ends == { n \in 0..Len(text) :
                    JoinedChars(SubSeq(text, 1, n)) < chunk_size }
        last == CHOOSE n \in ends : \A m \in ends : m <= n
    IN  SubSeq(text, 1, IF last < Len(text) THEN last + 1 ELSE last)

\* One document whose content decodes to a text of Texts, layout-
\* normalized; the chunks table is empty or holds the rows of a run on an
\* earlier content.
InitChunker ==
    /\ chunking \in ChunkingSettings
    /\ chunker = [at |-> "idle", runs |-> 0, k |-> 0, chunks |-> << >>,
                  current_chunk |-> << >>, current_size |-> 0]
    /\ \E text \in Texts : raw_content = [d \in DocIds |-> text]
    /\ documents = [d \in DocIds |->
            [status |-> "layout_normalized", updated_at |-> 0,
             content_hash |-> << "literal", "abc123" >>,
             schema_version |-> "v1"]]
    /\ chunks \in { << >>,
                    ReplaceChunks(<< >>, 1, << << >>, << >>, << >> >>) }
    /\ pipeline_runs = << >>
    /\ metrics = << >>
    /\ embeddings = << >>
    /\ extractions = << >>
    /\ prompts = << >>
    /\ validation_errors = << >>
    /\ settings = CHOOSE st \in DefaultBackoff : st.llm_max_retries = 0
    /\ callers = {}
    /\ step = [i \in Invocations |-> 0]
    /\ now = 1
    /\ faults = 0
    /\ pc = [i \in Invocations |-> "idle"]
    /\ document_id = [i \in Invocations |-> 0]
    /\ stage_idx = [i \in Invocations |-> 0]
    /\ attempt = [i \in Invocations |-> 0]
    /\ run_id = [i \in Invocations |-> 0]
    /\ error = [i \in Invocations |-> NoError]
    /\ results = [i \in Invocations |-> EmptyResults]
    /\ backoff = [i \in Invocations |-> NoSleep]
    /\ slept = [i \in Invocations |-> 0]
    /\ ValidatorUnused
    /\ SubmitUnused
    /\ TasksUnused
    /\ ProviderUnused
    /\ CostUnused
    /\ DeadlineUnused
    /\ RegistryUnused

\* what the steps of the chunking stage leave alone
chunkerQuiet ==
    << settings, callers, raw_content, pipeline_runs, metrics, faults,
       localVars, outputVars, step, validatorVars, submitVars, taskVars,
       providerVars, chunking, prices, awaiting,
       registry >>

\* execute reads the document and its content and calls _create_chunks
\* (chunking.py:35-61, 99-107)
Execute(d) ==
    /\ chunker.at = "idle"
    /\ chunker.runs < MaxChunkingRuns
    /\ chunker' = [at |-> "loop", runs |-> chunker.runs + 1, k |-> 1,
                   chunks |-> << >>, current_chunk |-> << >>,
                   current_size |-> 0]
    /\ UNCHANGED << documents, chunks, now, chunkerQuiet >>

\* one pass of `for para in paragraphs` (chunking.py:109-132)
TakeParagraph(d) ==
    /\ chunker.at = "loop"
    /\ chunker.k <= Len(raw_content[d])
    /\ LET para == raw_content[d][chunker.k]
           full == /\ chunker.current_size + para.tokens > chunking.chunk_size
                   /\ chunker.current_chunk # << >>
           kept == IF ~ full THEN chunker.current_chunk
                   ELSE IF chunking.chunk_overlap > 0
                   THEN << chunker.current_chunk[Len(chunker.current_chunk)] >>
                   ELSE << >>
           size == IF ~ full THEN chunker.current_size
                   ELSE IF chunking.chunk_overlap > 0
                   THEN kept[1].tokens ELSE 0
       IN  chunker' =
             IF para.chars = 0
             THEN [chunker EXCEPT !.k = @ + 1]
             ELSE [chunker EXCEPT
                     !.k = @ + 1,
                     !.chunks = IF full
                                THEN Flush(@, chunker.current_chunk,
                                           chunking.min_chunk_size)
                                ELSE @,
                     !.current_chunk = Append(kept, para),
                     !.current_size = size + para.tokens]
    /\ UNCHANGED << documents, chunks, now, chunkerQuiet >>

\* the loop is over: the final chunk and the fallback
\* (chunking.py:99-100, 134-140)
ReturnChunks(d) ==
    /\ chunker.at = "loop"
    /\ chunker.k > Len(raw_content[d])
    /\ LET text == raw_content[d]
           flushed == IF chunker.current_chunk # << >>
                      THEN Flush(chunker.chunks, chunker.current_chunk,
                                 chunking.min_chunk_size)
                      ELSE chunker.chunks
       IN  chunker' = [chunker EXCEPT
             !.at = IF text # << >> /\ flushed = << >>
                    THEN "fallback" ELSE "returned",
             !.chunks = IF text = << >> THEN << >>
                        ELSE IF flushed # << >> THEN flushed
                        ELSE << Fallback(text, chunking.chunk_size) >>]
    /\ UNCHANGED << documents, chunks, now, chunkerQuiet >>

\* execute deletes the chunk rows of the document, inserts one row per
\* chunk, sets the status and commits (chunking.py:63-87)
WriteChunks(d) ==
    /\ chunker.at \in {"returned", "fallback"}
    /\ chunks' = ReplaceChunks(chunks, d, chunker.chunks)
    /\ documents' = SetStatus(documents, d, StageStatus("chunking"), now)
    /\ now' = now + 1
    /\ chunker' = [chunker EXCEPT !.at = "idle"]
    /\ UNCHANGED chunkerQuiet

NextChunker ==
    \/ \E d \in DocIds : Execute(d)
    \/ \E d \in DocIds : TakeParagraph(d)
    \/ \E d \in DocIds : ReturnChunks(d)
    \/ \E d \in DocIds : WriteChunks(d)

SpecChunker == InitChunker /\ [][NextChunker]_vars

(* --------------- StructuredExtractionStage: the cost ------------------ *)

\* bits of the significand of a float (53 in CPython)
FloatBits == 4

\* extractions rows inserted
MaxCostedRows == 2

\* The float 1.0: floats are counted in units of the smallest positive
\* float, 2^-(FloatBits + 10), below which nothing is told apart.
One == Pow(2, FloatBits + 10)

\* n / d rounded to an integer, ties to even
RoundHalfEven(n, d) ==
    LET q == n \div d
        r == n % d
    IN  IF 2 * r < d THEN q
        ELSE IF 2 * r > d THEN q + 1
        ELSE IF q % 2 = 0 THEN q ELSE q + 1

\* The float nearest to n / d units (IEEE-754 round to nearest, ties to
\* even): the spacing of the floats around it is 2^e units, e the largest
\* exponent that leaves FloatBits significant bits.
Float(n, d) ==
    LET q == n \div d
        e == CHOOSE x \in 0..(FloatBits + 12) :
                 /\ x = 0 \/ Pow(2, x + FloatBits - 1) <= q
                 /\ Pow(2, x + FloatBits) > q
    IN  RoundHalfEven(n, d * Pow(2, e)) * Pow(2, e)

\* _calculate_cost charging the output tokens at the input price
_calculate_cost_one_price(tokens_in, tokens_out, cost_per_1k) ==
    LET cost_in == Float(Float(tokens_in * One, 1000) * cost_per_1k.input, One)
        cost_out ==
            Float(Float(tokens_out * One, 1000) * cost_per_1k.input, One)
    IN  Float(cost_in + cost_out, 1)

\* StructuredExtractionStage._calculate_cost: the int / int division, the
\* two float products and the float sum
_calculate_cost(tokens_in, tokens_out, cost_per_1k) ==
    LET cost_in == Float(Float(tokens_in * One, 1000) * cost_per_1k.input, One)
        cost_out ==
            Float(Float(tokens_out * One, 1000) * cost_per_1k.output, One)
    IN  Float(cost_in + cost_out, 1)

\* token counts of a response
TokenCounts == {0, 1, 999, 1000}

\* the prices of the settings: 0, and the floats of 0.01 and 0.03
\* (settings.py:87-88)
Prices == {0, Float(One, 100), Float(3 * One, 100)}

\* a stage with its prices over an empty extractions table
InitCost ==
    /\ prices \in [input : Prices, output : Prices]
    /\ EngineUnused
    /\ ValidatorUnused
    /\ SubmitUnused
    /\ TasksUnused
    /\ ProviderUnused
    /\ ChunkerUnused
    /\ DeadlineUnused
    /\ RegistryUnused

\* _process_chunk computes the cost of a response and inserts the
\* extractions row (structured_extraction.py:121-141)
StoreExtraction ==
    /\ Len(extractions) < MaxCostedRows
    /\ \E tokens_in \in TokenCounts, tokens_out \in TokenCounts :
          extractions' = Append(extractions,
              [ id |-> NextRowId(extractions),
                chunk_id |-> Len(extractions) + 1,
                is_valid |-> FALSE,
                tokens_in |-> tokens_in,
                tokens_out |-> tokens_out,
                cost_usd |-> _calculate_cost(tokens_in, tokens_out, prices) ])
    /\ UNCHANGED << settings, callers, storeVars, embeddings, prompts,
                    validation_errors, now, faults, localVars, step,
                    outsideEngine >>

NextCost == StoreExtraction

SpecCost == InitCost /\ [][NextCost]_vars

(* ------------------- the engine and the stage deadline ---------------- *)

\* seconds a stage may run past the deadline in the behaviours explored
MaxOverrun == 1

\* settings.pipeline_stage_timeout (settings.py:52; 3600 by default), in
\* the seconds of the clock of this section
pipeline_stage_timeout == 2

\* one call of execute_pipeline with the default backoff
InitDeadline ==
    /\ settings \in DefaultBackoff
    /\ callers = {1}
    /\ InitStore
    /\ ValidatorUnused
    /\ SubmitUnused
    /\ TasksUnused
    /\ ServicesUnused

\* seconds the attempt of run r has been awaited in stage.execute
SecondsAwaited(r) == IF awaiting.run = r THEN awaiting.seconds ELSE 0

\* A second passes while invocation i awaits stage.execute (engine.py:157):
\* the await is neither wrapped in a timeout nor cancelled by another task,
\* and nothing reads pipeline_stage_timeout.
StageRunsOn(i) ==
    /\ pc[i] = "exec"
    /\ Scheduled(i)
    /\ SecondsAwaited(run_id[i]) < pipeline_stage_timeout + MaxOverrun
    /\ awaiting' = [run |-> run_id[i],
                    seconds |-> SecondsAwaited(run_id[i]) + 1]
    /\ UNCHANGED << engineVars, validatorVars, submitVars, taskVars,
                    providerVars, chunkerVars, prices, registry >>

NextDeadline ==
    \/ Next
    \/ \E i \in Invocations : StageRunsOn(i)

SpecDeadline == InitDeadline /\ [][NextDeadline]_vars

(* ------------------ SchemaRegistry on its own ------------------------- *)

\* calls of get_schema and clear_cache on the instance
MaxRegistryCalls == 3

\* What <schema_version>.json is in the registry directory: not there,
\* not JSON, JSON whose root is a list, or one of two JSON objects.
SchemaFiles == {"missing", "malformed", "list", "object A", "object B"}

\* the files json.load gives a dict for
ObjectFiles == {"object A", "object B"}

\* get_schema that reads the file at every call
SchemaRegistryGetUncached(reg, v) ==
    IF reg.files[v] = "missing"
    THEN [reg EXCEPT !.stats = @ + 1,
                     !.returned = << [raised |-> "SchemaRegistryError"] >>]
    ELSE IF reg.files[v] \notin ObjectFiles
    THEN [reg EXCEPT !.stats = @ + 1, !.opens = @ + 1,
                     !.returned = << [raised |-> "SchemaRegistryError"] >>]
    ELSE LET loaded == [object |-> reg.loads + 1, json |-> reg.files[v]]
         IN  [reg EXCEPT !.stats = @ + 1, !.opens = @ + 1, !.loads = @ + 1,
                         !._cache[v] = << loaded >>,
                         !.returned = << [value |-> loaded] >>]

\* SchemaRegistry.get_schema (schema_registry.py:21-72): the cached dict
\* if there is one; else exists(), open and json.load, the isinstance
\* test, the store into _cache.  Every raise ends as SchemaRegistryError:
\* the one of the isinstance test is caught and wrapped by `except
\* Exception`.  A dict json.load builds is a new object, told apart here
\* by the count of loads.
SchemaRegistryGet(reg, v) ==
    IF reg._cache[v] # << >>
    THEN [reg EXCEPT !.returned = << [value |-> reg._cache[v][1]] >>]
    ELSE IF reg.files[v] = "missing"
    THEN [reg EXCEPT !.stats = @ + 1,
                     !.returned = << [raised |-> "SchemaRegistryError"] >>]
    ELSE IF reg.files[v] \notin ObjectFiles
    THEN [reg EXCEPT !.stats = @ + 1, !.opens = @ + 1,
                     !.returned = << [raised |-> "SchemaRegistryError"] >>]
    ELSE LET loaded == [object |-> reg.loads + 1, json |-> reg.files[v]]
         IN  [reg EXCEPT !.stats = @ + 1, !.opens = @ + 1, !.loads = @ + 1,
                         !._cache[v] = << loaded >>,
                         !.returned = << [value |-> loaded] >>]

\* a new SchemaRegistry (schema_registry.py:17-19) over any directory
InitRegistry ==
    /\ \E files \in [SchemaVersions -> SchemaFiles] :
          registry = [ _cache |-> [v \in SchemaVersions |-> << >>],
                       files |-> files, stats |-> 0, opens |-> 0,
                       loads |-> 0, calls |-> 0, called |-> << >>,
                       returned |-> << >>,
                       handed |-> [v \in SchemaVersions |-> << >>] ]
    /\ EngineUnused
    /\ ValidatorUnused
    /\ SubmitUnused
    /\ TasksUnused
    /\ ProviderUnused
    /\ ChunkerUnused
    /\ CostUnused
    /\ DeadlineUnused

registryQuiet ==
    << engineVars, validatorVars, submitVars, taskVars, providerVars,
       chunkerVars, prices, awaiting >>

\* get_schema(v) is called; handed[v] keeps the schema the caller was
\* given, for the callers that hold it since the last clear_cache
GetSchema(v) ==
    /\ registry.calls < MaxRegistryCalls
    /\ \E reg \in { SchemaRegistryGet(registry, v) } :
          registry' = [reg EXCEPT
              !.calls = @ + 1,
              !.called = << "get_schema", v >>,
              !.handed[v] = IF "value" \in DOMAIN reg.returned[1]
                            THEN << reg.returned[1].value >> ELSE @]
    /\ UNCHANGED registryQuiet

\* clear_cache() is called (schema_registry.py:92-94)
ClearCache ==
    /\ registry.calls < MaxRegistryCalls
    /\ registry' = [registry EXCEPT
                       !._cache = [v \in SchemaVersions |-> << >>],
                       !.calls = @ + 1, !.called = << "clear_cache" >>,
                       !.returned = << >>,
                       !.handed = [v \in SchemaVersions |-> << >>]]
    /\ UNCHANGED registryQuiet

\* the file of version v is written, replaced or removed between calls
FileChanges(v) ==
    /\ \E f \in SchemaFiles \ {registry.files[v]} :
          registry' = [registry EXCEPT !.files[v] = f, !.called = << >>]
    /\ UNCHANGED registryQuiet

NextRegistry ==
    \/ \E v \in SchemaVersions : GetSchema(v)
    \/ ClearCache
    \/ \E v \in SchemaVersions : FileChanges(v)

SpecRegistry == InitRegistry /\ [][NextRegistry]_vars

(* ------------------------------ claims -------------------------------- *)

\* the ids of the runs of stage s on document d, and the completed ones
RunsOf(d, s) ==
    { r \in 1..Len(pipeline_runs) :
        pipeline_runs[r].document_id = d /\ pipeline_runs[r].stage = s }

CompletedRunsOf(d, s) ==
    { r \in RunsOf(d, s) : pipeline_runs[r].status = "completed" }

\* the ids of the runs invocation i created for stage s
RunsBy(i, s) ==
    { r \in 1..Len(pipeline_runs) :
        /\ pipeline_runs[r].correlation_id = i
        /\ pipeline_runs[r].stage = s }

\* the stage order as section 4.1 states it
FixedOrder ==
    << "ingest", "text_extraction", "layout_normalization", "chunking",
       "embedding", "structured_extraction", "validation", "persistence",
       "metrics_and_audit" >>

\* position of stage s in FixedOrder
OrderOf(s) == CHOOSE k \in 1..Len(FixedOrder) : FixedOrder[k] = s

\* invocation i takes a step of its own in this transition
Steps(i) == pc'[i] # pc[i] \/ stage_idx'[i] # stage_idx[i]
               \/ attempt'[i] # attempt[i]

\* C1: for every (document_id, stage) at most one PipelineRun row has
\* status completed, in every reachable state, overlapping invocations
\* included.
C1_AtMostOneCompleted ==
    \A d \in DocIds : \A s \in StageNames :
        Cardinality(CompletedRunsOf(d, s)) <= 1

\* C2: when the for-loop reaches stage S with a completed run of S in the
\* store, S is recorded "skipped", no pipeline_runs or metrics row is
\* inserted and the loop moves on without executing S; with no such run the
\* retry loop of S is entered; a stage whose run is marked completed is
\* recorded "completed"; and an invocation that recorded S "skipped" has
\* created no run of S.
C2_SkipIffCompleted ==
    [][ \A i \in Invocations :
          LET s == FixedOrder[stage_idx[i]]
              d == document_id[i]
          IN  /\ ( pc[i] = "check" /\ Steps(i) /\ pc'[i] # "crashed" ) =>
                    IF CompletedRunsOf(d, s) # {}
                    THEN /\ results'[i][s] = "skipped"
                         /\ pipeline_runs' = pipeline_runs
                         /\ metrics' = metrics
                         /\ pc'[i] \in {"check", "final"}
                    ELSE /\ pc'[i] = "create"
                         /\ results'[i][s] = "none"
              /\ ( pc[i] = "complete" /\ pc'[i] \in {"check", "final"} ) =>
                    /\ results'[i][s] = "completed"
                    /\ pipeline_runs'[run_id[i]].status = "completed"
              /\ \A s2 \in StageNames :
                    results'[i][s2] = "skipped" =>
                        { r \in 1..Len(pipeline_runs') :
                            /\ pipeline_runs'[r].correlation_id = i
                            /\ pipeline_runs'[r].stage = s2 } = {}
      ]_vars

\* C2 witness: an invocation that skipped one stage and completed another
C2_Witness ==
    \E i \in Invocations : \E s1, s2 \in StageNames :
        /\ results[i][s1] = "skipped"
        /\ results[i][s2] = "completed"

\* no raise, no crash and no overlapping call so far
Undisturbed == faults = 0

\* C3: a second run on a document whose first run completed every stage
\* changes nothing a downstream read returns: every step of an invocation
\* that skipped all nine stages after another invocation returned leaves
\* the tables (documents with status and updated_at, chunks, pipeline_runs,
\* metrics) as they are.
C3_SecondRunChangesNothing ==
    [][ \A i \in Invocations :
          ( /\ Undisturbed
            /\ pc[i] = "final"
            /\ \A s \in StageNames : results[i][s] = "skipped"
            /\ \E j \in Invocations : pc[j] = "done"
            /\ Steps(i) )
          => /\ documents' = documents
             /\ chunks' = chunks
             /\ pipeline_runs' = pipeline_runs
             /\ metrics' = metrics
      ]_vars

\* Invocation i left execute_pipeline through a raise of the except block
\* (engine.py:211, 223): the run of its last attempt is marked failed.
AbortedOnFailedRun(i) ==
    /\ pc[i] = "aborted"
    /\ run_id[i] \in 1..Len(pipeline_runs)
    /\ pipeline_runs[run_id[i]].status = "failed"
    /\ pipeline_runs[run_id[i]].stage = FixedOrder[stage_idx[i]]
    /\ pipeline_runs[run_id[i]].attempt = attempt[i]
    /\ pipeline_runs[run_id[i]].correlation_id = i

\* the runs of (d, s) are exactly one run per attempt 1..k, the first k-1
\* of them failed
OneRunPerAttempt(d, s, k) ==
    LET R == RunsOf(d, s)
    IN  /\ Cardinality(R) = k
        /\ \A a \in 1..k : \E r \in R : pipeline_runs[r].attempt = a
        /\ \A r \in R :
              pipeline_runs[r].attempt < k => pipeline_runs[r].status = "failed"

\* C4: in one invocation on a document without earlier runs, a stage that
\* first succeeds on attempt k leaves exactly k runs: attempts 1..k-1
\* failed, attempt k completed.
C4_RetryAccounting ==
    \A i \in Invocations : \A s \in StageNames :
        results[i][s] = "completed" =>
            \E r \in CompletedRunsOf(document_id[i], s) :
                /\ pipeline_runs[r].attempt \in
                        1..(settings.llm_max_retries + 1)
                /\ OneRunPerAttempt(document_id[i], s,
                                    pipeline_runs[r].attempt)

\* C4 witness: a stage completed on its third attempt
C4_Witness ==
    \E i \in Invocations : \E s \in StageNames :
        /\ results[i][s] = "completed"
        /\ \E r \in RunsOf(document_id[i], s) :
              /\ pipeline_runs[r].status = "completed"
              /\ pipeline_runs[r].attempt = 3

\* C5: an attempt that raises an error other than TransientExternal is the
\* last one of its stage and of the invocation: its run is marked failed
\* with the error's kind, no attempt of the stage before it raised such an
\* error (so the stage is attempted once when the first attempt raises it),
\* no sleep follows it, the error is re-raised and no later stage has a run
\* or a result.
C5_NonRetryableHalts ==
    \A i \in Invocations :
        ( /\ AbortedOnFailedRun(i)
          /\ pipeline_runs[run_id[i]].error_type # "transient_external" )
        => LET s == FixedOrder[stage_idx[i]]
               d == document_id[i]
           IN  /\ OneRunPerAttempt(d, s, attempt[i])
               /\ \A r \in RunsOf(d, s) \ {run_id[i]} :
                     pipeline_runs[r].error_type = "transient_external"
               /\ slept[i] = attempt[i] - 1
               /\ backoff[i] = NoSleep
               /\ error[i] # NoError
               /\ error[i] # "TransientExternalError"
               /\ results[i][s] = "none"
               /\ \A k \in (stage_idx[i] + 1)..Len(FixedOrder) :
                     /\ RunsOf(d, FixedOrder[k]) = {}
                     /\ results[i][FixedOrder[k]] = "none"

\* C5 witness: the first attempt of a stage raised ModelOutput and the
\* invocation is aborted with that stage's single run
C5_Witness ==
    \E i \in Invocations :
        /\ AbortedOnFailedRun(i)
        /\ error[i] = "ModelOutputError"
        /\ pipeline_runs[run_id[i]].error_type = "model_output"
        /\ stage_idx[i] = 6
        /\ Cardinality(RunsOf(document_id[i], "structured_extraction")) = 1

\* C6: for every max_retries, a stage that fails with TransientExternal on
\* every attempt is attempted max_retries+1 times, attempts 1..max_retries+1
\* each leaving a failed run, with max_retries sleeps between them, and
\* then the error is re-raised and the invocation aborts.
C6_RetriesExhausted ==
    \A i \in Invocations :
        ( /\ AbortedOnFailedRun(i)
          /\ \A r \in RunsOf(document_id[i], FixedOrder[stage_idx[i]]) :
                pipeline_runs[r].error_type = "transient_external" )
        => /\ attempt[i] = settings.llm_max_retries + 1
           /\ OneRunPerAttempt(document_id[i], FixedOrder[stage_idx[i]],
                               settings.llm_max_retries + 1)
           /\ \A r \in RunsOf(document_id[i], FixedOrder[stage_idx[i]]) :
                 pipeline_runs[r].status = "failed"
           /\ slept[i] = settings.llm_max_retries
           /\ error[i] = "TransientExternalError"

\* C6 witness: three transient failures with max_retries = 2
C6_Witness ==
    \E i \in Invocations :
        /\ AbortedOnFailedRun(i)
        /\ settings.llm_max_retries = 2
        /\ error[i] = "TransientExternalError"
        /\ slept[i] = 2
        /\ Cardinality(RunsOf(document_id[i], FixedOrder[stage_idx[i]])) = 3

\* min(base^(a-1), max) of the claim, in whole seconds
ClaimedBackoff(a) ==
    LET p == Pow(settings.pipeline_retry_backoff_base, a - 1)
    IN  IF p < settings.pipeline_retry_backoff_max
        THEN p ELSE settings.pipeline_retry_backoff_max

\* the sleep after failed attempt a without jitter, in 1/Unit seconds
PlainSleep(a) == ClaimedBackoff(a) * Unit

\* C7 without jitter: the sleep after failed attempt a is exactly
\* min(base^(a-1), max), never above max, and not shorter than the sleep
\* after any earlier attempt.
C7_PlainBackoff ==
    \A i \in Invocations :
        (backoff[i].on /\ ~settings.pipeline_retry_jitter) =>
            /\ backoff[i].attempt = attempt[i]
            /\ backoff[i].units = PlainSleep(attempt[i])
            /\ backoff[i].units <= settings.pipeline_retry_backoff_max * Unit
            /\ \A a \in 1..attempt[i] : PlainSleep(a) <= backoff[i].units

RunsOfDocument(d) ==
    { r \in 1..Len(pipeline_runs) : pipeline_runs[r].document_id = d }

\* stage number k of FixedOrder has a completed run for document d
CompletedAt(d, k) == CompletedRunsOf(d, FixedOrder[k]) # {}

\* C8: stages run in the fixed order, one at a time: a run of stage S
\* exists, and an invocation is inside an attempt of S, only when every
\* stage before S has a completed run for the document; hence the stages
\* with a completed run form a prefix of the order.
C8_FixedOrderPrefix ==
    \A d \in DocIds :
        LET Done == { k \in 1..Len(FixedOrder) : CompletedAt(d, k) }
        IN  /\ \A r \in RunsOfDocument(d) :
                  \A k \in 1..(OrderOf(pipeline_runs[r].stage) - 1) : k \in Done
            /\ \A i \in Invocations :
                  ( /\ document_id[i] = d
                    /\ pc[i] \in {"create", "exec", "complete", "fail",
                                  "sleeping"} )
                  => \A k \in 1..(stage_idx[i] - 1) : k \in Done
            /\ \A k \in Done : \A j \in 1..(k - 1) : j \in Done

\* C8 witness: an attempt of validation is executing while persistence has
\* no run yet
C8_Witness ==
    \E i \in Invocations :
        /\ pc[i] = "exec"
        /\ stage_idx[i] = 7
        /\ RunsOf(document_id[i], "validation") # {}
        /\ RunsOf(document_id[i], "persistence") = {}

\* the status the last stage with a completed run wrote to document d,
\* "pending" of the submission when no stage has one; the embedding and
\* structured_extraction stages write none for a document without chunks
StatusOfLastCompleted(d) ==
    LET W == { k \in 1..Len(FixedOrder) :
                 /\ CompletedAt(d, k)
                 /\ FixedOrder[k] \in {"embedding", "structured_extraction"}
                       => ChunkRowsOf(chunks, d) # << >> }
    IN  IF W = {} THEN "pending"
        ELSE StageStatus(FixedOrder[
                CHOOSE k \in W : \A j \in W : j <= k])

\* C9: when the invocation aborts on a stage whose last attempt is marked
\* failed, document.status is the value written by the last stage that
\* succeeded: the failed attempts changed nothing, and the status is
\* neither failed nor, short of all nine stages, completed.
C9_AbortLeavesStatus ==
    \A i \in Invocations :
        AbortedOnFailedRun(i) =>
            /\ documents[document_id[i]].status
                  = StatusOfLastCompleted(document_id[i])
            /\ documents[document_id[i]].status \notin {"failed", "completed"}

\* C10: document.status = completed only when every one of the nine stages
\* has a completed run for the document.
C10_CompletedImpliesAllStages ==
    \A d \in DocIds :
        (d \in DOMAIN documents /\ documents[d].status = "completed") =>
            \A s \in StageNames : CompletedRunsOf(d, s) # {}

\* the metrics rows of run r
MetricsOf(r) == { m \in 1..Len(metrics) : metrics[m].run_id = r }

\* C13: each run marked completed or failed has exactly one metrics row
\* with its run_id, carrying its stage name and written by the step that
\* changed the status; a run still marked running has none.
C13_MetricPerFinishedRun ==
    /\ \A r \in 1..Len(pipeline_runs) :
          IF pipeline_runs[r].status \in {"completed", "failed"}
          THEN /\ Cardinality(MetricsOf(r)) = 1
               /\ \A m \in MetricsOf(r) :
                     metrics[m].stage = pipeline_runs[r].stage
          ELSE MetricsOf(r) = {}
    /\ \A m \in 1..Len(metrics) : metrics[m].run_id \in 1..Len(pipeline_runs)

\* C13 witness: a failed, a completed and a running run side by side
C13_Witness ==
    /\ \E r \in 1..Len(pipeline_runs) : pipeline_runs[r].status = "failed"
    /\ \E r \in 1..Len(pipeline_runs) : pipeline_runs[r].status = "completed"
    /\ \E r \in 1..Len(pipeline_runs) : pipeline_runs[r].status = "running"
    /\ Len(metrics) >= 2

\* C14: no two runs share (document_id, stage, attempt), and the runs of
\* one (document_id, stage) in the order of started_at have strictly
\* increasing attempts, across all invocations on the document; stated
\* for a run that starts after an earlier run of the stage was marked
\* failed (a retry, or a re-invocation after an abort).
C14_OneRunPerAttemptEver ==
    \A r1, r2 \in 1..Len(pipeline_runs) :
        ( /\ pipeline_runs[r1].document_id = pipeline_runs[r2].document_id
          /\ pipeline_runs[r1].stage = pipeline_runs[r2].stage
          /\ pipeline_runs[r1].status = "failed"
          /\ pipeline_runs[r1].finished_at < pipeline_runs[r2].started_at )
        => pipeline_runs[r1].attempt < pipeline_runs[r2].attempt

\* C20: validating the same data object against the same schema twice
\* yields the same ValidationResult: same is_valid, same errors in the
\* same order, also when properties of the schema carry defaults.
C20_ValidateTwiceSame ==
    Len(validation_results) = 2 =>
        validation_results[1] = validation_results[2]

\* C12: after any sequence or interleaving of submissions the store holds
\* at most one documents row per (content_hash, schema_version).
C12_OneDocumentPerHashAndSchema ==
    \A d1, d2 \in DOMAIN documents :
        ( /\ documents[d1].content_hash = documents[d2].content_hash
          /\ documents[d1].schema_version = documents[d2].schema_version )
        => d1 = d2

\* the content of document d is the content its hash was taken from
ValidDocument(d) == hash_content(raw_content[d]) = documents[d].content_hash

\* chunk and extraction rows without the ids the store gave them
ChunkContents(rows, d) ==
    [k \in 1..Len(ChunkRowsOf(rows, d)) |->
        [ sequence |-> ChunkRowsOf(rows, d)[k].sequence,
          text |-> ChunkRowsOf(rows, d)[k].text ]]
ExtractionContents(rows) ==
    [k \in 1..Len(rows) |->
        [ json_result |-> rows[k].json_result,
          is_valid |-> rows[k].is_valid ]]

\* the chunk and extraction contents an uninterrupted run of the nine
\* stages leaves for document d: the chunks of its content in order, and
\* per chunk the extraction of its text with the verdict of the validator
UninterruptedChunks(d) ==
    [k \in 1..Len(_create_chunks(raw_content[d])) |->
        [ sequence |-> k - 1, text |-> _create_chunks(raw_content[d])[k] ]]
UninterruptedExtractions(d) ==
    [k \in 1..Len(_create_chunks(raw_content[d])) |->
        LET obj == parsed_json(_create_chunks(raw_content[d])[k])
        IN  [ json_result |-> json_dumps(obj),
              is_valid |-> validate(obj,
                              get_schema(documents[d].schema_version)
                           ).result.is_valid ]]

\* invocation i runs on document d after another invocation on d crashed
\* or aborted; no attempt of i has failed and no stage attempt, store
\* write or process fails any more
Resuming(i) ==
    /\ Active(i)
    /\ pc[i] # "fail"
    /\ error[i] = NoError
    /\ ValidDocument(document_id[i])
    /\ faults = FaultBudget
    /\ \E j \in Invocations \ {i} :
          /\ pc[j] \in {"crashed", "aborted"}
          /\ document_id[j] = document_id[i]

\* invocation i returned with every stage completed, the document
\* completed, and the chunks and extractions of an uninterrupted run
Converged(i) ==
    LET d == document_id[i]
    IN  /\ pc[i] = "done"
        /\ \A s \in StageNames : CompletedRunsOf(d, s) # {}
        /\ documents[d].status = "completed"
        /\ ChunkContents(chunks, d) = UninterruptedChunks(d)
        /\ ExtractionContents(extractions) = UninterruptedExtractions(d)

\* C11: after a crash or an abort of an invocation, a re-invocation on the
\* same document whose attempts all succeed terminates with every stage
\* completed, document.status = completed and the chunk and extraction
\* contents of an uninterrupted run; failed and running runs left behind
\* do not keep a stage from being executed again.
C11_ResumeConverges == \A i \in Invocations : Resuming(i) ~> Converged(i)

\* C11 witness: a re-invocation returned after an earlier invocation
\* crashed inside structured_extraction, past the commit of a chunk,
\* leaving a running run behind
C11_Witness ==
    \E i \in Invocations :
        /\ Converged(i)
        /\ extractions # << >>
        /\ \E j \in Invocations \ {i} : pc[j] = "crashed"
        /\ \E r \in RunsOf(document_id[i], "structured_extraction") :
              pipeline_runs[r].status = "running"

\* ids of the extraction rows in the store
ExtractionIds == { extractions[k].id : k \in 1..Len(extractions) }

\* no invocation is inside an attempt of stage s
NoAttemptRunning(s) ==
    \A i \in Invocations : ~(pc[i] = "exec" /\ CurrentStage(i) = s)

\* C15: after any attempt of the structured_extraction stage, first run or
\* retry after a partly committed attempt, no prompts row and no
\* validation_errors row references an extraction that is not in the store.
C15_NoOrphanRows ==
    NoAttemptRunning("structured_extraction") =>
        /\ \A k \in 1..Len(prompts) : prompts[k].extraction_id \in ExtractionIds
        /\ \A k \in 1..Len(validation_errors) :
              validation_errors[k].extraction_id \in ExtractionIds

\* some row of rows belongs to chunk c
HasRowFor(rows, c) == \E k \in 1..Len(rows) : rows[k].chunk_id = c

\* C16: the regenerating stages commit the deletion of their previous
\* output and their fresh rows in one transaction: no commit takes the
\* store from a state that has chunks of a document, or an embedding or an
\* extraction of a chunk, to a committed state that has none.
C16_DeleteWithFreshRows ==
    [][ \A d \in DocIds :
          /\ ChunkRowsOf(chunks, d) # << >> => ChunkRowsOf(chunks', d) # << >>
          /\ \A c \in ChunkIds(chunks, d) :
                /\ HasRowFor(embeddings, c) => HasRowFor(embeddings', c)
                /\ HasRowFor(extractions, c) => HasRowFor(extractions', c)
      ]_vars

\* the validation_errors rows of extraction id, without the column that
\* says whose they are
ErrorsOf(id) ==
    LET rows == SelectSeq(validation_errors, LAMBDA r : r.extraction_id = id)
    IN  [k \in 1..Len(rows) |->
            [json_path |-> rows[k].json_path, message |-> rows[k].message]]

\* the validation stage has completed for document d
Validated(d) == documents[d].status = "validated"

\* C19: after the validation stage completed for a document, every
\* extraction of the document has is_valid true exactly when it has no
\* validation_errors row, its rows are the errors the validator reports
\* for its json_result, one row per error, rows of earlier runs are gone,
\* and another run of the stage leaves the same rows.
C19_ValidationRows ==
    /\ [](\A d \in DocIds : Validated(d) =>
            \A k \in 1..Len(extractions) :
                extractions[k].chunk_id \in ChunkIds(chunks, d) =>
                    /\ extractions[k].is_valid
                          <=> ErrorsOf(extractions[k].id) = << >>
                    /\ ErrorsOf(extractions[k].id) =
                          validate(json_loads(extractions[k].json_result),
                                   schema).result.errors)
    /\ [][ \A d \in DocIds : Validated(d) =>
              /\ extractions' = extractions
              /\ validation_errors' = validation_errors ]_vars

\* C19 witness: the stage ran twice; one extraction is invalid with two
\* validation_errors rows, the other is valid with none
C19_Witness ==
    /\ Validated(1)
    /\ now = MaxValidationRuns + 1
    /\ \E k \in 1..Len(extractions) :
          ~extractions[k].is_valid /\ Len(ErrorsOf(extractions[k].id)) = 2
    /\ \E k \in 1..Len(extractions) :
          extractions[k].is_valid /\ ErrorsOf(extractions[k].id) = << >>

\* C17: within an attempt of structured_extraction, a chunk whose
\* procedure committed keeps its extraction row when a sibling fails
\* afterwards, in every interleaving of the tasks: the row is in the store
\* while the attempt goes on, when gather has raised and when the run of
\* the attempt is marked failed.
C17_CommittedSiblingsKept ==
    stage_call \in {"gather", "raised", "failed"} =>
        \A c \in DOMAIN task :
            task[c] = "done" =>
                /\ HasRowFor(extractions, c)
                /\ stage_call = "failed" =>
                      pipeline_runs[Len(pipeline_runs)].status = "failed"

\* C17 witness: the run of the attempt is marked failed, a task failed and
\* the chunk of a task that committed has its row
C17_Witness ==
    /\ stage_call = "failed"
    /\ pipeline_runs[Len(pipeline_runs)].status = "failed"
    /\ \E c \in DOMAIN task : task[c] = "failed"
    /\ \E c \in DOMAIN task : task[c] = "done" /\ HasRowFor(extractions, c)

\* the chunk tasks inside their per-chunk procedure
InsideTasks == { c \in DOMAIN task : task[c] \in Inside }

\* the extraction rows of chunk c
RowsFor(c) == { k \in 1..Len(extractions) : extractions[k].chunk_id = c }

\* C18: at every instant at most max_concurrent_chunks chunk tasks are
\* inside their per-chunk procedure; the slots taken are those of the
\* tasks inside, so a task that failed has released its slot; when an
\* attempt succeeded every chunk of the document was processed exactly
\* once: it has one extraction row.
C18_SemaphoreBound ==
    /\ Cardinality(InsideTasks) <= max_concurrent
    /\ stage_call \notin {"unused", "delete"} =>
          semaphore + Cardinality(InsideTasks) = max_concurrent
    /\ stage_call \in {"returned", "completed"} =>
          \A c \in ChunkIds(chunks, 1) : Cardinality(RowsFor(c)) = 1

\* C18 witness: the second attempt succeeded after a task of the first
\* failed; every slot was given back
C18_Witness ==
    /\ stage_call = "completed"
    /\ Len(pipeline_runs) = 2
    /\ pipeline_runs[1].status = "failed"
    /\ semaphore = max_concurrent
    /\ max_concurrent < TaskChunks

\* data meets the required and type constraints of the schema
Satisfies(d, sch) ==
    \A p \in Props :
        /\ p \in sch.required => d[p] # Absent
        /\ d[p] # Absent => TypeOf(d[p]) = sch.properties[p].type

\* the ValidationResult the step appended
Returned == validation_results'[Len(validation_results')]

\* the step is a validate call on data
Validates == Len(validation_results') = Len(validation_results) + 1

\* is_valid is true exactly when the list of errors is empty, and a
\* property x of the wrong type gives an error at "$.x"
VerdictAndTypeErrors ==
    /\ Returned.is_valid <=> Returned.errors = << >>
    /\ \A p \in Props :
          ( /\ data[p] # Absent
            /\ TypeOf(data[p]) # schema.properties[p].type )
          => /\ ~ Returned.is_valid
             /\ \E k \in 1..Len(Returned.errors) :
                    Returned.errors[k].json_path = << "$.", p >>

Answered == outcome # << >> /\ "status_code" \in DOMAIN exchange[1]

\* C22: generate_structured raises TransientExternal on status 429, on any
\* status >= 500 and on a timeout or network error of the connection, and
\* ModelOutput on any other status outside 200..299; it returns a result
\* on a 2xx response only.
C22_HttpOutcomes ==
    /\ ( outcome # << >> /\ ~ Answered ) =>
          ( exchange[1].raised \in {"TimeoutException", "NetworkError"}
            => outcome[1] = "TransientExternalError" )
    /\ Answered =>
          LET status == exchange[1].status_code
          IN  /\ ( status = 429 \/ status >= 500 )
                    => outcome[1] = "TransientExternalError"
              /\ ( status # 429 /\ status < 500 /\ status \notin 200..299 )
                    => outcome[1] = "ModelOutputError"
    /\ ( outcome # << >> /\ outcome[1] = NoError ) =>
          /\ Answered
          /\ exchange[1].status_code \in 200..299

\* status 500 was answered with TransientExternal
C22_Witness ==
    /\ Answered
    /\ exchange[1].status_code = 500
    /\ outcome[1] = "TransientExternalError"

\* C23: whatever generate_structured raises is TransientExternal or
\* ModelOutput; a 2xx response whose body is not JSON, or has no choices or
\* no generated text, raises ModelOutput, which the engine classifies as
\* model_output and does not retry.
C23_OnlyTaxonomyErrors ==
    outcome # << >> =>
        /\ outcome[1] \in
              {NoError, "TransientExternalError", "ModelOutputError"}
        /\ ( /\ Answered
             /\ exchange[1].status_code \in 200..299
             /\ \/ ~ exchange[1].json
                \/ ~ exchange[1].key
                \/ exchange[1].entries = 0 )
           => /\ classify_error(outcome[1]) = "model_output"
              /\ ~ is_retryable(outcome[1])

\* the kinds of the taxonomy
TaxonomyKinds ==
    { "transient_external", "model_output", "schema_validation",
      "schema_registry", "pipeline_state", "storage", "configuration",
      "ingestion", "extraction", "chunking", "embedding" }

\* C24: a pipeline_runs row marked failed carries the error_type
\* classify_error gives for the error its attempt raised, this value is one
\* of the eleven kinds of the taxonomy, and its error_message has at most
\* 1000 characters.
C24_FailedRunErrorType ==
    [][ \A r \in 1..Len(pipeline_runs) :
          ( /\ pipeline_runs[r].status = "running"
            /\ pipeline_runs'[r].status = "failed" )
          => /\ \E i \in Invocations :
                  /\ run_id[i] = r
                  /\ error[i] # NoError
                  /\ pipeline_runs'[r].error_type = classify_error(error[i])
             /\ pipeline_runs'[r].error_type \in TaxonomyKinds
             /\ pipeline_runs'[r].error_message <= 1000 ]_vars

\* the paragraphs of a chunk
ParagraphsOf(chunk) == { chunk[k] : k \in 1..Len(chunk) }

\* _create_chunks returned chunks it built, not the fallback
ChunksReturned == chunker.at = "returned"

\* C25: every non-empty paragraph of the text is in at least one chunk
\* _create_chunks returns, whatever the text and the configuration, unless
\* the result is the fallback chunk.
C25_EveryParagraphChunked ==
    ChunksReturned =>
        \A d \in DocIds : \A k \in 1..Len(raw_content[d]) :
            raw_content[d][k].chars > 0 =>
                \E c \in 1..Len(chunker.chunks) :
                    raw_content[d][k] \in ParagraphsOf(chunker.chunks[c])

\* C26: when no paragraph of the text has more than chunk_size tokens, the
\* paragraphs of every returned chunk, the fallback apart, sum to at most
\* chunk_size tokens, whatever the overlap.
C26_ChunkWithinBudget ==
    ( /\ ChunksReturned
      /\ \A d \in DocIds : \A k \in 1..Len(raw_content[d]) :
            raw_content[d][k].tokens <= chunking.chunk_size )
    => \A c \in 1..Len(chunker.chunks) :
          Sum([k \in 1..Len(chunker.chunks[c]) |->
                  chunker.chunks[c][k].tokens]) <= chunking.chunk_size

\* the chunking stage has committed
ChunkingCommitted == chunker.at = "idle" /\ chunker.runs > 0

\* C27: after the chunking stage commits for a document the chunker gave n
\* chunks for, the chunk rows of the document are exactly n rows with the
\* sequences 0..n-1, each once, in the order of the chunks, also after a
\* re-run and over the rows of an earlier run.
C27_DenseSequences ==
    ChunkingCommitted =>
        \A d \in DocIds :
            /\ Len(ChunkRowsOf(chunks, d)) = Len(chunker.chunks)
            /\ \A k \in 1..Len(chunker.chunks) :
                  /\ ChunkRowsOf(chunks, d)[k].sequence = k - 1
                  /\ ChunkRowsOf(chunks, d)[k].text = chunker.chunks[k]

\* a second run committed two chunks
C27_Witness ==
    /\ ChunkingCommitted
    /\ chunker.runs = 2
    /\ Len(chunker.chunks) = 2
    /\ Len(chunks) = 2

\* the document is missing, or its raw content, or the hash of the content
\* is not content_hash
IngestRefuses(d) ==
    \/ d \notin DOMAIN documents
    \/ raw_content[d] = NoRow
    \/ hash_content(raw_content[d]) # documents[d].content_hash

\* C28: when the document is missing, its raw content is missing or the
\* hash of the content differs from content_hash, ingest never completes:
\* no run of ingest is completed, the status of the document stays pending
\* and no run of a later stage exists; and a call that met no other fault
\* ends with a single run of ingest, failed with error_type pipeline_state.
C28_IngestChecksHash ==
    \A d \in DocIds :
        IngestRefuses(d) =>
            /\ \A r \in 1..Len(pipeline_runs) :
                  pipeline_runs[r].document_id = d =>
                      /\ pipeline_runs[r].stage = "ingest"
                      /\ pipeline_runs[r].status # "completed"
            /\ d \in DOMAIN documents => documents[d].status = "pending"
            /\ \A i \in Invocations :
                  ( /\ document_id[i] = d
                    /\ pc[i] \in {"aborted", "done", "final"}
                    /\ faults = 0 )
                  => /\ pc[i] = "aborted"
                     /\ Len(pipeline_runs) = 1
                     /\ pipeline_runs[1].status = "failed"
                     /\ pipeline_runs[1].error_type = "pipeline_state"

\* a call on a document whose hash differs has ended on its failed run
C28_Witness ==
    /\ 1 \in DOMAIN documents
    /\ raw_content[1] # NoRow
    /\ IngestRefuses(1)
    /\ pc[1] = "aborted"
    /\ faults = 0
    /\ Len(pipeline_runs) = 1
    /\ pipeline_runs[1].error_type = "pipeline_state"

\* the error invocation i holds was raised by a store write of the engine
StoreWriteRaised(i) == error[i] = "SQLAlchemyError"

\* C29: an error raised by a store write of the engine (_create_run_record,
\* _complete_run_record, _fail_run_record) reaches the caller unrecorded:
\* once an invocation holds such an error, no run of the invocation changes
\* its status (none is marked failed) and no metric is written for a run of
\* it, so the error is not attributed to the stage, whose output may be
\* committed.
C29_StoreErrorsUnrecorded ==
    [][ \A i \in Invocations :
          StoreWriteRaised(i) =>
            /\ \A r \in 1..Len(pipeline_runs) :
                  pipeline_runs[r].correlation_id = i =>
                      pipeline_runs'[r].status = pipeline_runs[r].status
            /\ \A m \in (Len(metrics) + 1)..Len(metrics') :
                  pipeline_runs[metrics'[m].run_id].correlation_id # i ]_vars

\* C30: every extractions row stores cost_usd = tokens_in / 1000 * price_in
\* + tokens_out / 1000 * price_out of its own tokens_in and tokens_out and
\* the configured prices; the cost is 0 when both token counts are 0, and
\* of two rows the one with no fewer tokens of either kind costs no less
\* (the prices being non-negative).
C30_CostOfTokens ==
    \A r \in 1..Len(extractions) :
        LET row == extractions[r]
            quotient_in == Float(row.tokens_in * One, 1000)
            quotient_out == Float(row.tokens_out * One, 1000)
        IN  /\ row.cost_usd =
                  Float(Float(quotient_in * prices.input, One)
                        + Float(quotient_out * prices.output, One), 1)
            /\ ( row.tokens_in = 0 /\ row.tokens_out = 0 ) => row.cost_usd = 0
            /\ \A q \in 1..Len(extractions) :
                  ( /\ row.tokens_in <= extractions[q].tokens_in
                    /\ row.tokens_out <= extractions[q].tokens_out )
                  => row.cost_usd <= extractions[q].cost_usd

\* two rows with different prices for input and output, the second with
\* more tokens and a higher cost
C30_Witness ==
    /\ Len(extractions) = 2
    /\ prices.input # prices.output
    /\ extractions[1].tokens_in < extractions[2].tokens_in
    /\ extractions[1].tokens_out > 0
    /\ extractions[1].cost_usd < extractions[2].cost_usd

\* invocation i marks the run of its attempt completed in this step
MarksCompleted(i) ==
    /\ pc[i] = "complete"
    /\ run_id[i] \in 1..Len(pipeline_runs)
    /\ pipeline_runs[run_id[i]].status = "running"
    /\ pipeline_runs'[run_id[i]].status = "completed"

\* C31: whenever the run of a stage is marked completed, document.status is
\* the stage's own label (ingested, text_extracted, layout_normalized,
\* chunked, embedded, extracted, validated, persisted, completed), set by
\* the attempt that is marked, also for a document without chunks.
C31_CompletedStageSetStatus ==
    [][ \A i \in Invocations :
          MarksCompleted(i) =>
              documents[document_id[i]].status = StageStatus(CurrentStage(i))
      ]_vars

\* the extractions rows of chunk c
ExtractionsOf(rows, c) == { k \in 1..Len(rows) : rows[k].chunk_id = c }

\* an extractions row of the next state that the current state has not
NewlyInserted(k) ==
    /\ k \in 1..Len(extractions')
    /\ \A j \in 1..Len(extractions) : extractions[j].id # extractions'[k].id

\* the validation stage of some invocation commits in this step
ValidationCommits ==
    \E i \in Invocations : pc[i] = "exec" /\ CurrentStage(i) = "validation"

Committed ==
    IF Len(extractions') > Len(extractions)
    THEN (Len(extractions) + 1)..Len(extractions')
    ELSE {}

\* C33: with prompts persisted, in every interleaving of the chunk tasks of
\* a stage attempt a commit puts an extractions row in the table only
\* together with its prompts row, and only rows of tasks that finished
\* their own inserts (the committing task, or a sibling that stands at its
\* own commit).
C33_ExtractionWithPrompt ==
    [][ storage_persist_prompts =>
          \A k \in Committed :
              /\ \E p \in 1..Len(prompts') :
                     prompts'[p].extraction_id = extractions'[k].id
              /\ task[extractions'[k].chunk_id] = "commit"
      ]_vars

\* the validator fills a default into the json_result of extractions row k
FillsDefault(rows, k) ==
    validate(json_loads(rows[k].json_result), schema).data
        # json_loads(rows[k].json_result)

\* C34: an execute of the validation stage changes only is_valid of the
\* extractions rows, the validation_errors rows and the status of the
\* document (with the updated_at of the same update statement): every
\* other column of every extractions row, json_result among them, is what
\* the extraction stage stored, also when the validator filled defaults
\* into the instance it was given; no other table changes.
C34_ValidationWritesIsValidOnly ==
    [][ /\ Len(extractions') = Len(extractions)
        /\ \A k \in 1..Len(extractions) :
              extractions' [k] =
                  [extractions[k] EXCEPT !.is_valid = extractions'[k].is_valid]
        /\ \A d \in DOMAIN documents :
              documents'[d] =
                  [documents[d] EXCEPT !.status = documents'[d].status,
                                       !.updated_at = documents'[d].updated_at]
        /\ UNCHANGED << chunks, raw_content, embeddings, prompts,
                        pipeline_runs, metrics >>
      ]_vars

\* the stage has run on an extraction into whose instance the validator
\* fills a default, and the row is marked valid
C34_Witness ==
    /\ Validated(1)
    /\ \E k \in 1..Len(extractions) :
          /\ FillsDefault(extractions, k)
          /\ extractions[k].is_valid

\* _create_chunks has returned, with chunks it built or with the fallback
CreateChunksReturned == chunker.at \in {"returned", "fallback"}

\* C35: for any text _create_chunks returns at least one chunk; when no
\* group of paragraphs was flushed it returns exactly one chunk, the
\* fallback, a prefix of the text; otherwise every chunk it returns has at
\* least min_chunk_size characters.
C35_AtLeastOneChunk ==
    CreateChunksReturned =>
        /\ Len(chunker.chunks) >= 1
        /\ chunker.at = "fallback" =>
              /\ Len(chunker.chunks) = 1
              /\ \A d \in DocIds :
                    /\ Len(chunker.chunks[1]) <= Len(raw_content[d])
                    /\ chunker.chunks[1] =
                          SubSeq(raw_content[d], 1, Len(chunker.chunks[1]))
        /\ chunker.at = "returned" =>
              \A c \in 1..Len(chunker.chunks) :
                  JoinedChars(chunker.chunks[c]) >= chunking.min_chunk_size

\* C36: while the engine awaits a stage, the attempt has not run longer
\* than pipeline_stage_timeout with its run still in status running: at
\* the deadline the engine cancels the stage and marks the run failed.
C36_DeadlineEnforced ==
    \A i \in Invocations :
        ( /\ pc[i] = "exec"
          /\ pipeline_runs[run_id[i]].status = "running" )
        => SecondsAwaited(run_id[i]) <= pipeline_stage_timeout

\* this step is a call of get_schema(v)
GetsSchema(v) ==
    /\ registry # << >>
    /\ registry'.calls = registry.calls + 1
    /\ registry'.called = << "get_schema", v >>

\* C37: on one SchemaRegistry, once get_schema(v) has returned a schema,
\* every later get_schema(v) returns that same object without a look at
\* the directory, whatever has become of the file, until clear_cache; a
\* lookup that fails (file missing, not JSON, root not an object) raises
\* SchemaRegistryError and leaves the cache as it was.
C37_CachedSchema ==
    [][ \A v \in SchemaVersions :
          GetsSchema(v) =>
              LET out == registry'.returned[1]
              IN  /\ registry.handed[v] # << >> =>
                        /\ out = [value |-> registry.handed[v][1]]
                        /\ registry'.stats = registry.stats
                        /\ registry'.opens = registry.opens
                  /\ ( /\ registry.handed[v] = << >>
                       /\ registry.files[v] \notin ObjectFiles )
                     => "raised" \in DOMAIN out
                  /\ "raised" \in DOMAIN out =>
                        /\ out.raised = "SchemaRegistryError"
                        /\ registry'._cache = registry._cache
      ]_vars

\* get_schema returned a schema, the file was then replaced by something
\* else, and the last call still returned the first object
C37_Witness ==
    /\ registry # << >>
    /\ registry.called # << >>
    /\ registry.called[1] = "get_schema"
    /\ registry.calls = MaxRegistryCalls
    /\ registry.loads = 1
    /\ "value" \in DOMAIN registry.returned[1]
    /\ registry.files[registry.called[2]] # registry.returned[1].value.json

\* run r belongs to an attempt an invocation is still carrying out
Owned(r) == \E i \in Invocations : Active(i) /\ run_id[i] = r

\* C38: a pipeline_runs row is created with status running and no
\* finished_at; it changes at most once, to completed or to failed, and
\* finished_at is set in that very change; a completed or failed row is
\* never modified again, no row is deleted, and a row left running by an
\* invocation that crashed is never changed by a later invocation.
C38_RunRowLifecycle ==
    [][ /\ Len(pipeline_runs') >= Len(pipeline_runs)
        /\ \A r \in 1..Len(pipeline_runs') :
              LET new == pipeline_runs'[r]
              IN  IF r > Len(pipeline_runs)
                  THEN new.status = "running" /\ new.finished_at = 0
                  ELSE LET old == pipeline_runs[r]
                       IN  /\ old.status # "running" => new = old
                           /\ ~ Owned(r) => new = old
                           /\ new # old =>
                                 /\ new.status \in {"completed", "failed"}
                                 /\ new.finished_at > 0
                                 /\ new = [old EXCEPT
                                       !.status = new.status,
                                       !.finished_at = new.finished_at,
                                       !.error_type = new.error_type,
                                       !.error_message = new.error_message]
                           /\ new.status = "running" <=> new.finished_at = 0
      ]_vars

\* a row left running by the crashed first invocation, beside a failed and
\* a completed row, after the second invocation has ended
C38_Witness ==
    /\ pc[1] = "crashed"
    /\ pc[2] \in {"done", "aborted"}
    /\ \E r \in 1..Len(pipeline_runs) :
          /\ pipeline_runs[r].status = "running"
          /\ pipeline_runs[r].correlation_id = 1
    /\ \E r \in 1..Len(pipeline_runs) :
          /\ pipeline_runs[r].status = "completed"
          /\ pipeline_runs[r].correlation_id = 2
    /\ \E r \in 1..Len(pipeline_runs) : pipeline_runs[r].status = "failed"

\* the order of the values of documents.status
StatusOrder ==
    << "pending", "ingested", "text_extracted", "layout_normalized",
       "chunked", "embedded", "extracted", "validated", "persisted",
       "completed" >>

\* position of a status in the order, 0 for a value outside it
StatusPosition(st) ==
    IF \E k \in 1..Len(StatusOrder) : StatusOrder[k] = st
    THEN CHOOSE k \in 1..Len(StatusOrder) : StatusOrder[k] = st
    ELSE 0

\* an invocation has started while an earlier one was inside
\* execute_pipeline
Overlapping ==
    \E i \in Invocations : \E j \in Invocations :
        i < j /\ Active(i) /\ pc[j] # "idle"

\* C39: over invocations of execute_pipeline that do not overlap, whether
\* they complete, abort on a failure or crash and are resumed, the status
\* of the document never moves to an earlier position of the order
\* pending, ingested, text_extracted, layout_normalized, chunked, embedded,
\* extracted, validated, persisted, completed, and is never failed.
C39_StatusNeverBack ==
    [][ ~ Overlapping' =>
          \A d \in DOMAIN documents :
              /\ StatusPosition(documents'[d].status) > 0
              /\ StatusPosition(documents'[d].status)
                    >= StatusPosition(documents[d].status)
      ]_vars

\* the first invocation crashed or aborted after the document had moved
\* on, and the second, started afterwards, has taken it further
C39_Witness ==
    /\ pc[1] \in {"crashed", "aborted"}
    /\ pc[2] = "done"
    /\ \E r \in 1..Len(pipeline_runs) :
          /\ pipeline_runs[r].correlation_id = 1
          /\ pipeline_runs[r].status = "completed"
    /\ \E r \in 1..Len(pipeline_runs) :
          /\ pipeline_runs[r].correlation_id = 1
          /\ pipeline_runs[r].status = "failed"
    /\ documents[1].status = "completed"

\* the pipeline_runs rows of document d
RunRows(runs, d) == SelectSeq(runs, LAMBDA row : row.document_id = d)

\* the background task of document d has ended: execute_pipeline
\* returned, raised or died with its process
PipelineEnded(d) ==
    \E i \in Invocations :
        /\ i <= Len(background_tasks)
        /\ background_tasks[i] = d
        /\ pc[i] \in {"aborted", "crashed", "done"}

\* C40: a POST /documents that finds a document with the same content
\* hash and schema version returns it and schedules nothing; no document
\* is handed to the background tasks twice and execute_pipeline starts at
\* most once per document; once the pipeline of a document has ended, the
\* document's row and its pipeline_runs rows never change again, whatever
\* is resubmitted.
C40_ResubmissionSchedulesNothing ==
    [][ /\ \A r \in Requests :
              ( submit_pc[r] = "select" /\ submit_pc'[r] = "returned" ) =>
                  /\ background_tasks' = background_tasks
                  /\ documents' = documents
                  /\ response'[r] \in 1..Len(documents)
        /\ \A d \in 1..Len(documents') :
              /\ Cardinality({ k \in 1..Len(background_tasks') :
                                 background_tasks'[k] = d }) <= 1
              /\ Cardinality({ i \in Invocations :
                                 pc'[i] # "idle" /\ document_id'[i] = d }) <= 1
        /\ \A d \in 1..Len(documents) :
              PipelineEnded(d) =>
                  /\ documents'[d] = documents[d]
                  /\ RunRows(pipeline_runs', d) = RunRows(pipeline_runs, d)
      ]_vars

\* the pipeline of document 1 aborted on a failed stage, the same bytes
\* were posted again and returned document 1, and nothing else was
\* scheduled
C40_Witness ==
    /\ pc[1] = "aborted"
    /\ Len(documents) = 1
    /\ documents[1].status \notin {"pending", "completed"}
    /\ \E k \in 1..Len(pipeline_runs) :
          /\ pipeline_runs[k].document_id = 1
          /\ pipeline_runs[k].status = "failed"
    /\ submit_pc[2] = "returned"
    /\ response[2] = 1
    /\ background_tasks = << 1 >>

====
